---- MODULE Spec2Model ----
(***************************************************************************)
(* B+ tree engine of enckrish/btree: leaf and internal nodes on a heap of  *)
(* node references, the tree facade (GetOp, SetOp, DelOp, All, Range) and  *)
(* a reference map driven by the same operations.                          *)
(*                                                                         *)
(* Keys are byte strings in the code; here a key is a number 1..MaxKey and *)
(* the lexicographic order of bytes.Compare is the order of the numbers.   *)
(* NilKey (0) stands for a nil Bytes: bytes.Compare treats it as the empty *)
(* string, which is below every key.  A value reference *V is a number     *)
(* 1..MaxVal, NilVal (0) is the nil reference.  A node reference is a      *)
(* positive number, NilNode (0) is nil.  Slice indexes are 0-based as in   *)
(* the code; At(s, i) reads s[i].                                          *)
(***************************************************************************)
EXTENDS Integers, Sequences, FiniteSets, TLC

MaxKey == 7
MaxVal == 2
MaxDegree == 4
MaxStop == 3
MaxPage == 2
MaxFill == 1
MaxSlots == 3
MaxValLen == 1400

NilKey == 0
NilVal == 0
NilNode == 0
PageSize == 4096
ShortLen == 3

Keys == 1..MaxKey

\* the keys of the insert-only runs, enough of them for an internal node of
\* the largest degree to split
GrowKeys == 1..(MaxKey + 3)

\* the keys of the runs that set keys in ascending order, enough of them
\* for two internal nodes of the largest degree not to fit in one; the
\* reference map has an entry for each
DeepKeys == 1..(MaxKey + 6)

\* where every key may be given every value, the keys that are written
FewKeys == 1..(MaxKey - 2)

Vals == 1..MaxVal
\* a tree has degree 3 at least (spec 4.1)
Degrees == 3..MaxDegree

VARIABLES heap, root, deg, height, ref, last, data, sres, pnode, pres

vars == <<heap, root, deg, height, ref, last, data, sres, pnode, pres>>

treeVars == <<heap, root, deg, height, ref, last>>

storeVars == <<data, sres>>

nodeVars == <<pnode, pres>>

(***************************************************************************)
(* Small utilities                                                         *)
(***************************************************************************)
ceilDiv(x, y) == (x + y - 1) \div y

At(s, i) == s[i + 1]

\* s[from:to] of a Go slice (0-based, to exclusive)
Slice(s, from, to) == SubSeq(s, from + 1, to)

\* the sequence s with e put at 0-based index i, the rest shifted right
\* (extend by one, shrArr(s[i:], 1), s[i] = e)
InsertAt(s, i, e) == Slice(s, 0, i) \o <<e>> \o Slice(s, i, Len(s))

\* the sequence s without its 0-based index i
\* (shlArr(s[i:], 1), then trim by one)
RemoveAt(s, i) == Slice(s, 0, i) \o Slice(s, i + 1, Len(s))

\* bytes.Compare on keys
Compare(a, b) == IF a < b THEN -1 ELSE IF a = b THEN 0 ELSE 1

RECURSIVE lbScan(_, _, _)
lbScan(arr, key, i) ==
    IF i >= Len(arr) THEN <<Len(arr), FALSE>>
    ELSE IF Compare(At(arr, i), key) >= 0 THEN <<i, Compare(At(arr, i), key) = 0>>
    ELSE lbScan(arr, key, i + 1)

lbLinSearch(arr, key) == lbScan(arr, key, 0)

\* sort.Find(len(arr), func(i) { return bytes.Compare(key, arr[i]) }): the
\* halving loop over [i, j)
RECURSIVE sortFindLoop(_, _, _, _)
sortFindLoop(arr, key, i, j) ==
    IF i >= j THEN i
    ELSE IF Compare(key, At(arr, (i + j) \div 2)) > 0
         THEN sortFindLoop(arr, key, ((i + j) \div 2) + 1, j)
         ELSE sortFindLoop(arr, key, i, (i + j) \div 2)

sortFindAt(arr, key, i) == <<i, i < Len(arr) /\ Compare(key, At(arr, i)) = 0>>

\* fault: an equal element sends the search to the right half
lbBinSearch_pastEqual(arr, key) ==
    sortFindAt(arr, key, sortFindLoop(arr, key + 1, 0, Len(arr)))

lbBinSearch(arr, key) ==
    sortFindAt(arr, key, sortFindLoop(arr, key, 0, Len(arr)))

lowerBoundBytesArr(arr, key) == lbScan(arr, key, 0)

(***************************************************************************)


(* Nodes                                                                   *)
(***************************************************************************)
\* A node of either kind.  cap is cap(keys) of a leaf and cap(pointers) of an
\* internal node (whose cap(keys) is cap - 1): slicing never changes it.
\* fault: a leaf has room for one key less
newLeafNode_small(nKeys) ==
    [isLeaf |-> TRUE, keys |-> <<>>, values |-> <<>>, pointers |-> <<>>,
     next |-> NilNode, minCount |-> ceilDiv(nKeys, 2), cap |-> nKeys - 1]

newLeafNode(nKeys) ==
    [isLeaf |-> TRUE, keys |-> <<>>, values |-> <<>>, pointers |-> <<>>,
     next |-> NilNode, minCount |-> ceilDiv(nKeys, 2), cap |-> nKeys]

newInternalNode(degree) ==
    [isLeaf |-> FALSE, keys |-> <<>>, values |-> <<>>, pointers |-> <<>>,
     next |-> NilNode, minCount |-> ceilDiv(degree, 2), cap |-> degree]

\* len(): keys of a leaf, pointers of an internal node
NodeLen(n) == IF n.isLeaf THEN Len(n.keys) ELSE Len(n.pointers)

\* fault: a node one below its minimum is left alone
needsRebalance_late(n) == NodeLen(n) < n.minCount - 1

needsRebalance(n) == NodeLen(n) < n.minCount

\* a reference the allocator has not handed out to a live node
NewRef(h) == CHOOSE i \in 1..(Cardinality(DOMAIN h) + 1) :
                 /\ i \notin DOMAIN h
                 /\ \A j \in 1..(i - 1) : j \in DOMAIN h

Put(h, id, n) == [h EXCEPT ![id] = n]

(***************************************************************************)
(* Leaf node                                                               *)
(***************************************************************************)
LeafNode_insertAtIndex(l, idx, key, value) ==
    [l EXCEPT !.keys = InsertAt(l.keys, idx, key),
              !.values = InsertAt(l.values, idx, value)]

\* fault: the old leaf keeps the smaller half
LeafNode_insertWithSplit_floorHalf(h, lid, idx, key, value) ==
    LET l == h[lid]
        size == l.cap \div 2
        rid == NewRef(h)
        toRight == idx >= size
        c == IF toRight THEN 0 ELSE 1
        r0 == [newLeafNode(l.cap) EXCEPT
                  !.next = l.next,
                  !.keys = Slice(l.keys, size - c, Len(l.keys)),
                  !.values = Slice(l.values, size - c, Len(l.values))]
        l0 == [l EXCEPT !.next = rid,
                        !.keys = Slice(l.keys, 0, size - c),
                        !.values = Slice(l.values, 0, size - c)]
        l1 == IF toRight THEN l0 ELSE LeafNode_insertAtIndex(l0, idx, key, value)
        r1 == IF toRight THEN LeafNode_insertAtIndex(r0, idx - size, key, value) ELSE r0
    IN  [h |-> (rid :> r1) @@ Put(h, lid, l1), node |-> rid]

\* returns [h, node]: the heap after the split and the new right leaf
LeafNode_insertWithSplit(h, lid, idx, key, value) ==
    LET l == h[lid]
        size == l.minCount
        rid == NewRef(h)
        toRight == idx >= size
        c == IF toRight THEN 0 ELSE 1
        r0 == [newLeafNode(l.cap) EXCEPT
                  !.next = l.next,
                  !.keys = Slice(l.keys, size - c, Len(l.keys)),
                  !.values = Slice(l.values, size - c, Len(l.values))]
        l0 == [l EXCEPT !.next = rid,
                        !.keys = Slice(l.keys, 0, size - c),
                        !.values = Slice(l.values, 0, size - c)]
        l1 == IF toRight THEN l0 ELSE LeafNode_insertAtIndex(l0, idx, key, value)
        r1 == IF toRight THEN LeafNode_insertAtIndex(r0, idx - size, key, value) ELSE r0
    IN  [h |-> (rid :> r1) @@ Put(h, lid, l1), node |-> rid]

\* return node.keys[0], node
withFirstKey(sp) == [h |-> sp.h, key |-> At(sp.h[sp.node].keys, 0), node |-> sp.node]

\* fault: an existing key keeps its old value reference
LeafNode_setOrInsertAt_keepsOld(h, lid, idx, key, value) ==
    LET l == h[lid]
    IN  IF idx < NodeLen(l) /\ At(l.keys, idx) = key
        THEN [h |-> h, key |-> NilKey, node |-> NilNode]
        ELSE IF NodeLen(l) < l.cap
        THEN [h |-> Put(h, lid, LeafNode_insertAtIndex(l, idx, key, value)),
              key |-> NilKey, node |-> NilNode]
        ELSE withFirstKey(LeafNode_insertWithSplit(h, lid, idx, key, value))

\* fault: the test for an existing key is missing
LeafNode_setOrInsertAt_insertsAgain(h, lid, idx, key, value) ==
    LET l == h[lid]
    IN  IF NodeLen(l) < l.cap
        THEN [h |-> Put(h, lid, LeafNode_insertAtIndex(l, idx, key, value)),
              key |-> NilKey, node |-> NilNode]
        ELSE withFirstKey(LeafNode_insertWithSplit(h, lid, idx, key, value))

LeafNode_setOrInsertAt(h, lid, idx, key, value) ==
    LET l == h[lid]
    IN  IF idx < NodeLen(l) /\ At(l.keys, idx) = key
        THEN [h |-> Put(h, lid, [l EXCEPT !.values[idx + 1] = value]),
              key |-> NilKey, node |-> NilNode]
        ELSE IF NodeLen(l) < l.cap
        THEN [h |-> Put(h, lid, LeafNode_insertAtIndex(l, idx, key, value)),
              key |-> NilKey, node |-> NilNode]
        ELSE withFirstKey(LeafNode_insertWithSplit(h, lid, idx, key, value))

\* returns [h, key, node]; node = NilNode when no new sibling was made
LeafNode_setOrInsert(h, lid, key, value) ==
    LeafNode_setOrInsertAt(h, lid, lowerBoundBytesArr(h[lid].keys, key)[1], key, value)

\* fault: a key that is not in the leaf is reported as deleted
LeafNode_deleteAt_alwaysTrue(h, lid, i, key) ==
    LET l == h[lid]
    IN  IF i < NodeLen(l) /\ At(l.keys, i) = key
        THEN [h |-> Put(h, lid, [l EXCEPT !.keys = RemoveAt(l.keys, i),
                                          !.values = RemoveAt(l.values, i)]),
              del |-> TRUE, panic |-> FALSE]
        ELSE [h |-> h, del |-> TRUE, panic |-> FALSE]

\* fault: a key that is not found takes the pair at its lower bound with it
LeafNode_deleteAt_dropsNearest(h, lid, i, key) ==
    LET l == h[lid]
    IN  IF i < NodeLen(l)
        THEN [h |-> Put(h, lid, [l EXCEPT !.keys = RemoveAt(l.keys, i),
                                          !.values = RemoveAt(l.values, i)]),
              del |-> At(l.keys, i) = key, panic |-> FALSE]
        ELSE [h |-> h, del |-> FALSE, panic |-> FALSE]

LeafNode_deleteAt(h, lid, i, key) ==
    LET l == h[lid]
    IN  IF i < NodeLen(l) /\ At(l.keys, i) = key
        THEN [h |-> Put(h, lid, [l EXCEPT !.keys = RemoveAt(l.keys, i),
                                          !.values = RemoveAt(l.values, i)]),
              del |-> TRUE, panic |-> FALSE]
        ELSE [h |-> h, del |-> FALSE, panic |-> FALSE]

\* returns [h, del, panic]; a leaf delete never panics
LeafNode_delete(h, lid, key) ==
    LeafNode_deleteAt(h, lid, lowerBoundBytesArr(h[lid].keys, key)[1], key)

\* fault: the right leaf is copied from one pair too early
redistributeLeafUnoptimized_offByOne(h, lid, rid) ==
    LET l == h[lid]
        r == h[rid]
        totalLen == NodeLen(l) + NodeLen(r)
        tempKeys == l.keys \o r.keys
        tempValues == l.values \o r.values
        lsz == l.minCount
    IN  Put(Put(h, lid, [l EXCEPT !.keys = Slice(tempKeys, 0, lsz),
                                  !.values = Slice(tempValues, 0, lsz)]),
            rid, [r EXCEPT !.keys = Slice(tempKeys, lsz - 1, totalLen - 1),
                           !.values = Slice(tempValues, lsz - 1, totalLen - 1)])

\* fault: the left leaf is left one pair short of its minimum
redistributeLeafUnoptimized_leftShort(h, lid, rid) ==
    LET l == h[lid]
        r == h[rid]
        totalLen == NodeLen(l) + NodeLen(r)
        tempKeys == l.keys \o r.keys
        tempValues == l.values \o r.values
        lsz == l.minCount - 1
    IN  Put(Put(h, lid, [l EXCEPT !.keys = Slice(tempKeys, 0, lsz),
                                  !.values = Slice(tempValues, 0, lsz)]),
            rid, [r EXCEPT !.keys = Slice(tempKeys, lsz, totalLen),
                           !.values = Slice(tempValues, lsz, totalLen)])

\* returns [h]: l keeps l.minCount pairs of the concatenation, r the rest
redistributeLeafUnoptimized(h, lid, rid) ==
    LET l == h[lid]
        r == h[rid]
        totalLen == NodeLen(l) + NodeLen(r)
        tempKeys == l.keys \o r.keys
        tempValues == l.values \o r.values
        lsz == l.minCount
    IN  Put(Put(h, lid, [l EXCEPT !.keys = Slice(tempKeys, 0, lsz),
                                  !.values = Slice(tempValues, 0, lsz)]),
            rid, [r EXCEPT !.keys = Slice(tempKeys, lsz, totalLen),
                           !.values = Slice(tempValues, lsz, totalLen)])

\* return rLeaf.keys[0]
withRightFirstKey(h1, rid) == [h |-> h1, upKey |-> At(h1[rid].keys, 0)]

\* fault: a merge leaves l.next pointing at the consumed leaf
LeafNode_rebalanceWith_staleNext(h, lid, rid, downKey) ==
    LET l == h[lid]
        r == h[rid]
        merge == l.cap >= NodeLen(l) + NodeLen(r)
    IN  IF merge
        THEN [h |-> Put(h, lid, [l EXCEPT !.keys = l.keys \o r.keys,
                                          !.values = l.values \o r.values]),
              upKey |-> NilKey]
        ELSE withRightFirstKey(redistributeLeafUnoptimized(h, lid, rid), rid)

\* fault: two leaves that exactly fill one node are not merged
LeafNode_rebalanceWith_strict(h, lid, rid, downKey) ==
    LET l == h[lid]
        r == h[rid]
        merge == l.cap > NodeLen(l) + NodeLen(r)
    IN  IF merge
        THEN [h |-> Put(h, lid, [l EXCEPT !.keys = l.keys \o r.keys,
                                          !.values = l.values \o r.values,
                                          !.next = r.next]),
              upKey |-> NilKey]
        ELSE withRightFirstKey(redistributeLeafUnoptimized(h, lid, rid), rid)

\* returns [h, upKey]; upKey = NilKey when the right leaf was merged into l
LeafNode_rebalanceWith(h, lid, rid, downKey) ==
    LET l == h[lid]
        r == h[rid]
        merge == l.cap >= NodeLen(l) + NodeLen(r)
    IN  IF merge
        THEN [h |-> Put(h, lid, [l EXCEPT !.keys = l.keys \o r.keys,
                                          !.values = l.values \o r.values,
                                          !.next = r.next]),
              upKey |-> NilKey]
        ELSE withRightFirstKey(redistributeLeafUnoptimized(h, lid, rid), rid)

(***************************************************************************)
(* Internal node                                                           *)
(***************************************************************************)
\* fault: a middle child goes with the neighbour of the smaller len
siblingPair_fewest(h, tid, i) ==
    LET t == h[tid]
        og == At(t.pointers, i)
    IN  IF i = 0 THEN <<og, At(t.pointers, 1), 0>>
        ELSE IF i = NodeLen(t) - 1
        THEN <<At(t.pointers, NodeLen(t) - 2), og, NodeLen(t) - 2>>
        ELSE LET lSib == At(t.pointers, i - 1)
                 rSib == At(t.pointers, i + 1)
             IN  IF NodeLen(h[lSib]) <= NodeLen(h[rSib])
                 THEN <<lSib, og, i - 1>>
                 ELSE <<og, rSib, i>>

\* fault: a middle child with neighbours of equal len goes with the right one
siblingPair_tieRight(h, tid, i) ==
    LET t == h[tid]
        og == At(t.pointers, i)
    IN  IF i = 0 THEN <<og, At(t.pointers, 1), 0>>
        ELSE IF i = NodeLen(t) - 1
        THEN <<At(t.pointers, NodeLen(t) - 2), og, NodeLen(t) - 2>>
        ELSE LET lSib == At(t.pointers, i - 1)
                 rSib == At(t.pointers, i + 1)
             IN  IF NodeLen(h[lSib]) > NodeLen(h[rSib])
                 THEN <<lSib, og, i - 1>>
                 ELSE <<og, rSib, i>>

\* returns <<left, right, downKeyIdx>>
siblingPair(h, tid, i) ==
    LET t == h[tid]
        og == At(t.pointers, i)
    IN  IF i = 0 THEN <<og, At(t.pointers, 1), 0>>
        ELSE IF i = NodeLen(t) - 1
        THEN <<At(t.pointers, NodeLen(t) - 2), og, NodeLen(t) - 2>>
        ELSE LET lSib == At(t.pointers, i - 1)
                 rSib == At(t.pointers, i + 1)
             IN  IF NodeLen(h[lSib]) >= NodeLen(h[rSib])
                 THEN <<lSib, og, i - 1>>
                 ELSE <<og, rSib, i>>

\* fault: a key equal to a separator goes to the child on its left
posOrNext_same(lb) == lb[1]

posOrNext(lb) == IF lb[2] THEN lb[1] + 1 ELSE lb[1]

childIndexForKey(t, key) == posOrNext(lowerBoundBytesArr(t.keys, key))

InternalNode_insertAtIndex(t, idx, key, ptr) ==
    [t EXCEPT !.keys = InsertAt(t.keys, idx, key),
              !.pointers = InsertAt(t.pointers, idx + 1, ptr)]

\* fault: the key that goes up also stays first in the right node
splitTemp_keepsUpKey(h, tid, temp) ==
    LET t == h[tid]
        size == t.minCount
        upKeyIdx == size - 1
        rid == NewRef(h)
        t1 == [t EXCEPT !.keys = Slice(temp.keys, 0, upKeyIdx),
                        !.pointers = Slice(temp.pointers, 0, size)]
        r == [newInternalNode(t.cap) EXCEPT
                 !.keys = Slice(temp.keys, upKeyIdx, Len(temp.keys)),
                 !.pointers = Slice(temp.pointers, size, Len(temp.pointers))]
    IN  [h |-> (rid :> r) @@ Put(h, tid, t1),
         key |-> At(temp.keys, upKeyIdx), node |-> rid]

\* the split of t given temp, the node with the new key and pointer in place
splitTemp(h, tid, temp) ==
    LET t == h[tid]
        size == t.minCount
        upKeyIdx == size - 1
        rid == NewRef(h)
        t1 == [t EXCEPT !.keys = Slice(temp.keys, 0, upKeyIdx),
                        !.pointers = Slice(temp.pointers, 0, size)]
        r == [newInternalNode(t.cap) EXCEPT
                 !.keys = Slice(temp.keys, upKeyIdx + 1, Len(temp.keys)),
                 !.pointers = Slice(temp.pointers, size, Len(temp.pointers))]
    IN  [h |-> (rid :> r) @@ Put(h, tid, t1),
         key |-> At(temp.keys, upKeyIdx), node |-> rid]

\* returns [h, key, node]: key is upKey, node the new right node
InternalNode_insertWithSplit(h, tid, pos, key, ptr) ==
    splitTemp(h, tid, InternalNode_insertAtIndex(h[tid], pos, key, ptr))

\* returns [h, key, node]
handleInsert(h, tid, pos, key, ptr) ==
    LET t == h[tid]
    IN  IF ptr = NilNode THEN [h |-> h, key |-> NilKey, node |-> NilNode]
        ELSE IF Len(t.keys) < t.cap - 1
        THEN [h |-> Put(h, tid, InternalNode_insertAtIndex(t, pos, key, ptr)),
              key |-> NilKey, node |-> NilNode]
        ELSE InternalNode_insertWithSplit(h, tid, pos, key, ptr)

\* fault: the key after the middle one goes up
redistributeInternalUnoptimized_upNext(h, lid, rid, downKey) ==
    LET l == h[lid]
        r == h[rid]
        totalLen == NodeLen(l) + NodeLen(r)
        tempKeys == l.keys \o <<downKey>> \o r.keys
        tempPointers == l.pointers \o r.pointers
        lsz == l.minCount
    IN  [h |-> Put(Put(h, lid, [l EXCEPT !.keys = Slice(tempKeys, 0, lsz - 1),
                                         !.pointers = Slice(tempPointers, 0, lsz)]),
                   rid, [r EXCEPT !.keys = Slice(tempKeys, lsz, Len(tempKeys)),
                                  !.pointers = Slice(tempPointers, lsz, totalLen)]),
         upKey |-> At(tempKeys, lsz)]

\* returns [h, upKey]: l keeps l.minCount pointers
redistributeInternalUnoptimized(h, lid, rid, downKey) ==
    LET l == h[lid]
        r == h[rid]
        totalLen == NodeLen(l) + NodeLen(r)
        tempKeys == l.keys \o <<downKey>> \o r.keys
        tempPointers == l.pointers \o r.pointers
        lsz == l.minCount
    IN  [h |-> Put(Put(h, lid, [l EXCEPT !.keys = Slice(tempKeys, 0, lsz - 1),
                                         !.pointers = Slice(tempPointers, 0, lsz)]),
                   rid, [r EXCEPT !.keys = Slice(tempKeys, lsz, Len(tempKeys)),
                                  !.pointers = Slice(tempPointers, lsz, totalLen)]),
         upKey |-> At(tempKeys, lsz - 1)]

\* returns [h, upKey]; upKey = NilKey when the right node was merged into l
InternalNode_rebalanceWith(h, lid, rid, downKey) ==
    LET l == h[lid]
        r == h[rid]
        merge == NodeLen(l) + NodeLen(r) <= l.cap
    IN  IF merge
        THEN [h |-> Put(h, lid, [l EXCEPT !.keys = l.keys \o <<downKey>> \o r.keys,
                                          !.pointers = l.pointers \o r.pointers]),
              upKey |-> NilKey]
        ELSE redistributeInternalUnoptimized(h, lid, rid, downKey)

rebalanceWith(h, lid, rid, downKey) ==
    IF h[lid].isLeaf THEN LeafNode_rebalanceWith(h, lid, rid, downKey)
    ELSE InternalNode_rebalanceWith(h, lid, rid, downKey)

\* the end of InternalNode.delete: the two assertions on the pair
assertRebalanced(h2, left, right, upKey) ==
    [h |-> h2, del |-> TRUE,
     panic |-> \/ needsRebalance(h2[left])
               \/ ~(upKey = NilKey \/ ~needsRebalance(h2[right]))]

\* a non-nil upKey replaces the separator; nil drops it and the right pointer
applyUpKey(rb, tid, left, right, dkIdx) ==
    LET t == rb.h[tid]
    IN  assertRebalanced(
            Put(rb.h, tid,
                IF rb.upKey # NilKey
                THEN [t EXCEPT !.keys[dkIdx + 1] = rb.upKey]
                ELSE [t EXCEPT !.keys = RemoveAt(t.keys, dkIdx),
                               !.pointers = RemoveAt(t.pointers, dkIdx + 1)]),
            left, right, rb.upKey)

rebalancePair(h1, tid, sp) ==
    applyUpKey(rebalanceWith(h1, sp[1], sp[2], At(h1[tid].keys, sp[3])),
               tid, sp[1], sp[2], sp[3])

\* InternalNode.delete after the child at index ci returned cd
afterChildDelete(cd, tid, ci) ==
    IF cd.panic \/ ~cd.del THEN cd
    ELSE IF ~needsRebalance(cd.h[At(cd.h[tid].pointers, ci)]) THEN cd
    ELSE rebalancePair(cd.h, tid, siblingPair(cd.h, tid, ci))

\* InternalNode.delete and LeafNode.delete behind the Node interface.
\* returns [h, del, panic]; panic is set when one of the two closing
\* assertions of InternalNode.delete fails (the heap is then the one at the
\* failing assertion).
RECURSIVE delete(_, _, _)
delete(h, nid, key) ==
    IF h[nid].isLeaf THEN LeafNode_delete(h, nid, key)
    ELSE LET ci == childIndexForKey(h[nid], key)
         IN  afterChildDelete(delete(h, At(h[nid].pointers, ci), key), nid, ci)

(***************************************************************************)
(* Descent and unwind                                                      *)
(***************************************************************************)
\* returns [leaf, st]: st is the stack of TraversalPositions, the last
\* element on top
RECURSIVE leafAndPathForKey(_, _, _, _)
leafAndPathForKey(h, n, key, st) ==
    IF h[n].isLeaf THEN [leaf |-> n, st |-> st]
    ELSE LET ci == childIndexForKey(h[n], key)
         IN  leafAndPathForKey(h, At(h[n].pointers, ci), key,
                               Append(st, [node |-> n, pos |-> ci]))

\* fault: an if where the loop is, one ancestor handled at most
unwindInsert_once(r, st) ==
    IF r.node = NilNode \/ st = <<>> THEN r
    ELSE handleInsert(r.h, st[Len(st)].node, st[Len(st)].pos, r.key, r.node)

\* the unwinding loop of setOrInsert: r is [h, key, node]
RECURSIVE unwindInsert(_, _)
unwindInsert(r, st) ==
    IF r.node = NilNode \/ st = <<>> THEN r
    ELSE LET p == st[Len(st)]
         IN  unwindInsert(handleInsert(r.h, p.node, p.pos, r.key, r.node),
                          SubSeq(st, 1, Len(st) - 1))

\* st.Clear(): *s = (*s)[:0]
Stack_Clear(st) == SubSeq(st, 1, 0)

\* the stack as the unwinding loop of setOrInsert leaves it
RECURSIVE unwindRest(_, _)
unwindRest(r, st) ==
    IF r.node = NilNode \/ st = <<>> THEN st
    ELSE unwindRest(handleInsert(r.h, st[Len(st)].node, st[Len(st)].pos, r.key, r.node),
                    SubSeq(st, 1, Len(st) - 1))

\* fault: no deferred st.Clear()
stackOnReturnAlong_kept(h, lp, key, value) ==
    unwindRest(LeafNode_setOrInsert(h, lp.leaf, key, value), lp.st)

\* the stack when setOrInsert returns: defer st.Clear()
stackOnReturnAlong(h, lp, key, value) ==
    Stack_Clear(unwindRest(LeafNode_setOrInsert(h, lp.leaf, key, value), lp.st))

stackOnReturn(h, n, key, value) ==
    stackOnReturnAlong(h, leafAndPathForKey(h, n, key, <<>>), key, value)

setOrInsertAlong(h, lp, key, value) ==
    unwindInsert(LeafNode_setOrInsert(h, lp.leaf, key, value), lp.st)

\* returns [h, key, node]
setOrInsert(h, n, key, value) ==
    setOrInsertAlong(h, leafAndPathForKey(h, n, key, <<>>), key, value)

lbIn(h, l, key) == <<l, lowerBoundBytesArr(h[l].keys, key)[1]>>

\* returns <<leaf, idx>>
lbPositionedRef(h, n, key) == lbIn(h, leafAndPathForKey(h, n, key, <<>>).leaf, key)

valueAt(l, i, key) ==
    IF i < NodeLen(l) /\ At(l.keys, i) = key THEN At(l.values, i) ELSE NilVal

valueIn(h, lp, key) == valueAt(h[lp[1]], lp[2], key)

valueRef(h, n, key) == valueIn(h, lbPositionedRef(h, n, key), key)

(***************************************************************************)
(* Tree facade                                                             *)
(***************************************************************************)
GetOp(h, rt, key) == valueRef(h, rt, key)

\* fault: a new root is installed and the height is left as it was
newRoot_keepsHeight(h, rt, ht, degree, up, node) ==
    LET n == [newInternalNode(degree) EXCEPT !.keys = <<up>>,
                                             !.pointers = <<rt, node>>]
        id == NewRef(h)
    IN  [h |-> (id :> n) @@ h, root |-> id, height |-> ht]

\* returns [h, root, height]
newRoot(h, rt, ht, degree, up, node) ==
    LET n == [newInternalNode(degree) EXCEPT !.keys = <<up>>,
                                             !.pointers = <<rt, node>>]
        id == NewRef(h)
    IN  [h |-> (id :> n) @@ h, root |-> id, height |-> ht + 1]

growRoot(r, rt, ht, degree) ==
    IF r.node # NilNode THEN newRoot(r.h, rt, ht, degree, r.key, r.node)
    ELSE [h |-> r.h, root |-> rt, height |-> ht]

\* returns [h, root, height]
SetOp(h, rt, ht, degree, key, value) ==
    growRoot(setOrInsert(h, rt, key, value), rt, ht, degree)

\* fault: the root stays when it is left with one child
shrinkRoot_never(r, rt, ht) ==
    [h |-> r.h, root |-> rt, height |-> ht, del |-> r.del, panic |-> r.panic]

\* fault: the root gives way to its child and the height is left as it was
shrinkRoot_keepsHeight(r, rt, ht) ==
    IF ~r.panic /\ r.del /\ ~r.h[rt].isLeaf /\ NodeLen(r.h[rt]) = 1
    THEN [h |-> r.h, root |-> At(r.h[rt].pointers, 0), height |-> ht,
          del |-> r.del, panic |-> FALSE]
    ELSE [h |-> r.h, root |-> rt, height |-> ht, del |-> r.del, panic |-> r.panic]

\* DelOp after b.root.delete returned r: an internal root left with one
\* pointer gives way to its child
shrinkRoot(r, rt, ht) ==
    IF ~r.panic /\ r.del /\ ~r.h[rt].isLeaf /\ NodeLen(r.h[rt]) = 1
    THEN [h |-> r.h, root |-> At(r.h[rt].pointers, 0), height |-> ht - 1,
          del |-> r.del, panic |-> FALSE]
    ELSE [h |-> r.h, root |-> rt, height |-> ht, del |-> r.del, panic |-> r.panic]

\* fault: the assertion on lazy is missing
DelOp_lazyIgnored(h, rt, ht, key, lazy) ==
    shrinkRoot(delete(h, rt, key), rt, ht)

\* returns [h, root, height, del, panic]; panic is set when an assertion
\* failed, the lazy-delete one included
DelOp(h, rt, ht, key, lazy) ==
    IF lazy THEN [h |-> h, root |-> rt, height |-> ht, del |-> FALSE, panic |-> TRUE]
    ELSE shrinkRoot(delete(h, rt, key), rt, ht)

\* fault: the stream ends with the leaf it started in
RECURSIVE iterLoop_oneLeaf(_, _, _, _, _, _)
iterLoop_oneLeaf(h, leaf, idx, high, stopAt, out) ==
    IF ~(idx < Len(h[leaf].keys)
         /\ (high = NilKey \/ Compare(At(h[leaf].keys, idx), high) < 0))
    THEN out
    ELSE LET out1 == Append(out, <<At(h[leaf].keys, idx), At(h[leaf].values, idx)>>)
         IN  IF Len(out1) = stopAt THEN out1
             ELSE IF idx + 1 >= Len(h[leaf].keys) THEN out1
             ELSE iterLoop_oneLeaf(h, leaf, idx + 1, high, stopAt, out1)

\* fault: a key equal to high is let through
RECURSIVE iterLoop_highInclusive(_, _, _, _, _, _)
iterLoop_highInclusive(h, leaf, idx, high, stopAt, out) ==
    IF ~(idx < Len(h[leaf].keys)
         /\ (high = NilKey \/ Compare(At(h[leaf].keys, idx), high) <= 0))
    THEN out
    ELSE LET out1 == Append(out, <<At(h[leaf].keys, idx), At(h[leaf].values, idx)>>)
         IN  IF Len(out1) = stopAt THEN out1
             ELSE IF idx + 1 >= Len(h[leaf].keys)
             THEN IF h[leaf].next = NilNode THEN out1
                  ELSE iterLoop_highInclusive(h, h[leaf].next, 0, high, stopAt, out1)
             ELSE iterLoop_highInclusive(h, leaf, idx + 1, high, stopAt, out1)

\* fault: at the end of a leaf the step to the next leaf comes before the
\* look at what yield returned
RECURSIVE iterLoop_stopLate(_, _, _, _, _, _)
iterLoop_stopLate(h, leaf, idx, high, stopAt, out) ==
    IF ~(idx < Len(h[leaf].keys)
         /\ (high = NilKey \/ Compare(At(h[leaf].keys, idx), high) < 0))
    THEN out
    ELSE LET out1 == Append(out, <<At(h[leaf].keys, idx), At(h[leaf].values, idx)>>)
         IN  IF idx + 1 >= Len(h[leaf].keys)
             THEN IF h[leaf].next = NilNode THEN out1
                  ELSE iterLoop_stopLate(h, h[leaf].next, 0, high, stopAt, out1)
             ELSE IF Len(out1) = stopAt THEN out1
             ELSE iterLoop_stopLate(h, leaf, idx + 1, high, stopAt, out1)

\* the loop of baseIterator from (leaf, idx); out is what was yielded so far.
\* The consumer's yield returns false on its stopAt-th call (never if 0).
RECURSIVE iterLoop(_, _, _, _, _, _)
iterLoop(h, leaf, idx, high, stopAt, out) ==
    IF ~(idx < Len(h[leaf].keys)
         /\ (high = NilKey \/ Compare(At(h[leaf].keys, idx), high) < 0))
    THEN out
    ELSE LET out1 == Append(out, <<At(h[leaf].keys, idx), At(h[leaf].values, idx)>>)
         IN  IF Len(out1) = stopAt THEN out1
             ELSE IF idx + 1 >= Len(h[leaf].keys)
             THEN IF h[leaf].next = NilNode THEN out1
                  ELSE iterLoop(h, h[leaf].next, 0, high, stopAt, out1)
             ELSE iterLoop(h, leaf, idx + 1, high, stopAt, out1)

\* the pairs the stream yields, in order
iterFrom(h, lp, high, stopAt) == iterLoop(h, lp[1], lp[2], high, stopAt, <<>>)

baseIterator(h, rt, low, high, stopAt) ==
    iterFrom(h, lbPositionedRef(h, rt, low), high, stopAt)

All(h, rt) == baseIterator(h, rt, NilKey, NilKey, 0)

Range(h, rt, low, high) == baseIterator(h, rt, low, high, 0)

(***************************************************************************)
(* Reclaiming.  A node that no reference leads to from the root is gone    *)
(* after the call.  The program compares node references for identity      *)
(* only, so which numbers stand for the live nodes is immaterial: after a  *)
(* call they are numbered in the order in which a walk from the root       *)
(* (child pointers left to right, then next) first meets them.             *)
(***************************************************************************)
Refs(n) == n.pointers \o (IF n.next = NilNode THEN <<>> ELSE <<n.next>>)

Has(s, e) == \E i \in 1..Len(s) : s[i] = e

\* the live nodes in the order the walk meets them
RECURSIVE Walk(_, _, _)
Walk(h, todo, seen) ==
    IF todo = <<>> THEN seen
    ELSE IF Has(seen, Head(todo)) THEN Walk(h, Tail(todo), seen)
    ELSE Walk(h, Refs(h[Head(todo)]) \o Tail(todo), Append(seen, Head(todo)))

Live(h, rt) == Walk(h, <<rt>>, <<>>)

IndexIn(order, id) == IF id = NilNode THEN NilNode
                      ELSE CHOOSE i \in 1..Len(order) : order[i] = id

Renamed(n, order) ==
    [n EXCEPT !.pointers = [i \in 1..Len(n.pointers) |-> IndexIn(order, n.pointers[i])],
              !.next = IndexIn(order, n.next)]

Renumber(h, order) == [i \in 1..Len(order) |-> Renamed(h[order[i]], order)]

\* the heap after a call that left the root at rt; the root is then node 1
Collect(h, rt) == Renumber(h, Live(h, rt))

(***************************************************************************)
(* MemoryStorage: a map from page ids to byte slices.  A byte slice is     *)
(* held as its length and a number that names its content (0: all zero     *)
(* bytes, as make leaves them); a nil slice has length 0.                  *)
(***************************************************************************)
PageIds == 0..MaxPage

Fills == 0..MaxFill

NilBuf == [len |-> 0, fill |-> 0]

\* make([]byte, s.PageSize())
ZeroPage == [len |-> PageSize, fill |-> 0]

\* the slices a caller hands to Write
Buffers == [len : {ShortLen, PageSize}, fill : Fills]

NewMemoryStorage == [id \in {} |-> NilBuf]

MemoryStorage_Exists(d, id) == id \in DOMAIN d

\* returns [b, ok]
MemoryStorage_Read(d, id) ==
    IF ~MemoryStorage_Exists(d, id) THEN [b |-> NilBuf, ok |-> FALSE]
    ELSE [b |-> d[id], ok |-> TRUE]

\* fault: the id drawn is taken as it comes
MemoryStorage_Alloc_noRetry(d, id) ==
    [done |-> TRUE, d |-> (id :> ZeroPage) @@ d, id |-> id, b |-> ZeroPage,
     err |-> FALSE]

\* id is a draw of rand.Uint32(): the loop goes on (done is FALSE) while
\* the id drawn is in the map.  returns [done, d, id, b, err]
MemoryStorage_Alloc(d, id) ==
    [done |-> ~MemoryStorage_Exists(d, id),
     d |-> (id :> ZeroPage) @@ d, id |-> id, b |-> ZeroPage, err |-> FALSE]

\* returns [d, err]
MemoryStorage_Write(d, id, buf) ==
    IF ~MemoryStorage_Exists(d, id) \/ d[id].len # PageSize
    THEN [d |-> d, err |-> TRUE]
    ELSE [d |-> [d EXCEPT ![id] = buf], err |-> FALSE]

\* returns [d, err]
MemoryStorage_Delete(d, id) ==
    IF ~MemoryStorage_Exists(d, id) THEN [d |-> d, err |-> TRUE]
    ELSE [d |-> [i \in (DOMAIN d) \ {id} |-> d[i]], err |-> FALSE]

(***************************************************************************)
(* The system: a tree, a reference map driven by the same calls, and the   *)
(* outcome of the call in progress.  A caller makes one call at a time and *)
(* takes its outcome (Return) before the next call.                        *)
(***************************************************************************)
\* ht0 is the height the tree had when the call was made, old the value
\* reference the caller of an Overwrite held for its key, stop the call of yield that returned
\* false
NoCall == [op |-> "idle", key |-> NilKey, val |-> NilVal, high |-> NilKey,
           del |-> FALSE, panic |-> FALSE, out |-> <<>>, ht0 |-> 0,
           old |-> NilVal, stop |-> 0, trace |-> <<>>]

(***************************************************************************)
(* The slotted page node: a page whose heap holds a table of key pointer   *)
(* cells growing from its start and value cells growing from its end.  The *)
(* heap is held as the cells written to it: ptrs is the pointer table from *)
(* offset 0 on, cells maps the offset of a value cell to what it holds,    *)
(* for the value cells that a pointer of the table leads to.               *)
(* Bytes of a page that were never written are zero, as make leaves them.  *)
(* A key or a value is held as its length and a number naming its content. *)
(***************************************************************************)
HeaderSize == 15

PtrHeadSize == 5

KeyCellSize == 2 + PtrHeadSize + 2

ValueCellHead == 5

MaxUint16 == 65535

HashLen == 32

IntLen == 8

TestTyp == 255

HeapSize == PageSize - HeaderSize

Uint16(x) == x % (MaxUint16 + 1)

Byte(x) == x % 256

\* the value lengths of the pairs inserted
ValLens == {IntLen, MaxValLen}

\* a key pointer cell and a value cell of zero bytes
ZeroPtr == [length |-> 0, head |-> NilKey, at |-> 0]

ZeroCell == [flags |-> 0, key |-> NilKey, klen |-> 0, val |-> NilVal, vlen |-> 0]

AllocNode(typ) ==
    [typ |-> typ, occupied |-> 0, valuesOffset |-> HeapSize, numKeys |-> 0,
     ptrs |-> <<>>, cells |-> [o \in {} |-> ZeroCell]]

ValidIndex(n, i) == i >= 0 /\ i < n.numKeys

\* the bytes of the pointer table at index i, read as a key pointer cell
KeyPtrCellAt(n, i) == IF i < Len(n.ptrs) THEN At(n.ptrs, i) ELSE ZeroPtr

KeyPtrCell_IsDeleted(kc) == kc.at = MaxUint16

\* kc.ValueCellIn(heap): heap[kc.At():], which is out of range for the
\* offset of a deleted cell
ValueCellIn(n, kc) == IF kc.at \in DOMAIN n.cells THEN n.cells[kc.at] ELSE ZeroCell

ValueCell_Size(vc) == ValueCellHead + vc.klen + vc.vlen

CalcValueCellSize(klen, vlen) == ValueCellHead + klen + vlen

Node_sizeForKey(n, i) ==
    IF KeyPtrCell_IsDeleted(KeyPtrCellAt(n, i)) THEN KeyCellSize
    ELSE KeyCellSize + ValueCell_Size(ValueCellIn(n, KeyPtrCellAt(n, i)))

Node_FreeSpace(n) == n.valuesOffset - n.numKeys * KeyCellSize

RECURSIVE liveSizeFrom(_, _)
liveSizeFrom(n, i) ==
    IF i >= n.numKeys THEN 0
    ELSE (IF KeyPtrCell_IsDeleted(KeyPtrCellAt(n, i)) THEN 0 ELSE Node_sizeForKey(n, i))
         + liveSizeFrom(n, i + 1)

Node_UnfragmentedFreeSpace(n) == HeapSize - liveSizeFrom(n, 0)

Node_Fragmentation(n) ==
    LET actualSpaceNeeded == n.numKeys * KeyCellSize + HeapSize - n.valuesOffset
    IN  IF actualSpaceNeeded = 0
        THEN (IF n.occupied = 0 THEN 255 ELSE 0)
        ELSE Byte((n.occupied * 255) \div actualSpaceNeeded)

\* the offsets of the value cells of the live pointers, greatest first
RECURSIVE sortReverse(_)
sortReverse(offs) ==
    IF offs = {} THEN <<>>
    ELSE <<CHOOSE o \in offs : \A p \in offs : p <= o>>
         \o sortReverse(offs \ {CHOOSE o \in offs : \A p \in offs : p <= o})

liveOffsets(n) ==
    {KeyPtrCellAt(n, i).at : i \in {j \in 0..(n.numKeys - 1) :
                                      ~KeyPtrCell_IsDeleted(KeyPtrCellAt(n, j))}}

\* offMap[off]: the last index whose live pointer is at off
offMapAt(n, off) ==
    CHOOSE i \in 0..(n.numKeys - 1) :
        /\ KeyPtrCellAt(n, i).at = off
        /\ \A j \in 0..(n.numKeys - 1) : KeyPtrCellAt(n, j).at = off => j <= i

\* the loop of CompactValueCells over the offsets vOffs still to move, m the
\* node as the loop has left it and moveOffset where the last cell went
RECURSIVE compactLoop(_, _, _, _)
compactLoop(n, m, vOffs, moveOffset) ==
    IF vOffs = <<>> THEN [m EXCEPT !.valuesOffset = moveOffset]
    ELSE compactLoop(n,
             [m EXCEPT !.cells = ((moveOffset - ValueCell_Size(n.cells[Head(vOffs)]))
                                     :> n.cells[Head(vOffs)]) @@ @,
                       !.ptrs[offMapAt(n, Head(vOffs)) + 1].at =
                           moveOffset - ValueCell_Size(n.cells[Head(vOffs)])],
             Tail(vOffs),
             moveOffset - ValueCell_Size(n.cells[Head(vOffs)]))

Node_CompactValueCells(n) ==
    compactLoop(n, [n EXCEPT !.cells = [o \in {} |-> ZeroCell]],
                sortReverse(liveOffsets(n)), HeapSize)

RECURSIVE liveCellsFrom(_, _)
liveCellsFrom(n, i) ==
    IF i >= n.numKeys THEN <<>>
    ELSE (IF KeyPtrCell_IsDeleted(KeyPtrCellAt(n, i)) THEN <<>>
          ELSE <<KeyPtrCellAt(n, i)>>) \o liveCellsFrom(n, i + 1)

\* fault: the deleted entries stay in the pointer table
Node_PurgeDeletedKeys_none(n) == n

Node_PurgeDeletedKeys(n) ==
    [n EXCEPT !.ptrs = liveCellsFrom(n, 0),
              !.numKeys = Uint16(Len(liveCellsFrom(n, 0))),
              !.occupied = Uint16(n.occupied
                                  - (n.numKeys - Len(liveCellsFrom(n, 0))) * KeyCellSize)]

compactFrom(n, m) ==
    [n |-> m, freed |-> Node_FreeSpace(m) - Node_FreeSpace(n),
     panic |-> Node_FreeSpace(m) # Node_UnfragmentedFreeSpace(n)]

\* returns [n, freed, panic]; panic is set when the assertion fails
Node_Compact(n) ==
    compactFrom(IF n.occupied = 0 THEN [n EXCEPT !.valuesOffset = HeapSize] ELSE n,
                Node_PurgeDeletedKeys(Node_CompactValueCells(
                    IF n.occupied = 0 THEN [n EXCEPT !.valuesOffset = HeapSize] ELSE n)))

\* the writes of InsertAt once there is room in n
insertInto(n, key, klen, val, vlen, index) ==
    [n EXCEPT !.ptrs = InsertAt(Slice(n.ptrs, 0, n.numKeys), index,
                                [length |-> klen, head |-> key,
                                 at |-> n.valuesOffset - CalcValueCellSize(klen, vlen)]),
              !.cells = ((n.valuesOffset - CalcValueCellSize(klen, vlen))
                            :> [flags |-> 0, key |-> key, klen |-> klen,
                                val |-> val, vlen |-> vlen]) @@ @,
              !.numKeys = Uint16(n.numKeys + 1),
              !.valuesOffset = n.valuesOffset - CalcValueCellSize(klen, vlen),
              !.occupied = Uint16(n.occupied + KeyCellSize + CalcValueCellSize(klen, vlen))]

\* returns [n, ok, panic]; panic is set when the assertion on index fails,
\* and when Compact has left fewer keys than index, the slice of the table
\* from index to the last key then having its bounds the wrong way round
Node_InsertAt(n, key, klen, val, vlen, index) ==
    IF index > n.numKeys THEN [n |-> n, ok |-> FALSE, panic |-> TRUE]
    ELSE IF KeyCellSize + CalcValueCellSize(klen, vlen) <= Node_FreeSpace(n)
    THEN [n |-> insertInto(n, key, klen, val, vlen, index), ok |-> TRUE, panic |-> FALSE]
    ELSE IF KeyCellSize + CalcValueCellSize(klen, vlen) > Node_UnfragmentedFreeSpace(n)
    THEN [n |-> n, ok |-> FALSE, panic |-> FALSE]
    ELSE IF Node_Compact(n).panic \/ index > Node_Compact(n).n.numKeys
    THEN [n |-> Node_Compact(n).n, ok |-> FALSE, panic |-> TRUE]
    ELSE [n |-> insertInto(Node_Compact(n).n, key, klen, val, vlen, index),
          ok |-> TRUE, panic |-> FALSE]

\* returns [n, ok, panic]; the value cell of a pointer that is already
\* deleted is read at an offset beyond the heap
Node_DeleteAtIndex(n, i) ==
    IF ~ValidIndex(n, i) THEN [n |-> n, ok |-> FALSE, panic |-> FALSE]
    ELSE IF KeyPtrCell_IsDeleted(KeyPtrCellAt(n, i))
    THEN [n |-> n, ok |-> FALSE, panic |-> TRUE]
    ELSE [n |-> [n EXCEPT !.ptrs[i + 1].at = MaxUint16,
                          !.cells = [o \in (DOMAIN @) \ {KeyPtrCellAt(n, i).at} |-> @[o]],
                          !.occupied = Uint16(n.occupied
                              - ValueCell_Size(ValueCellIn(n, KeyPtrCellAt(n, i))))],
          ok |-> TRUE, panic |-> FALSE]

\* the loop of HalfSizeK: i keeps the last index the range gave it
RECURSIVE halfLoop(_, _, _)
halfLoop(n, i, size) ==
    IF size + Node_sizeForKey(n, i) >= HeapSize \div 2 THEN i
    ELSE IF i + 1 >= n.numKeys THEN i
    ELSE halfLoop(n, i + 1, size + Node_sizeForKey(n, i))

Node_HalfSizeK(n) == IF n.numKeys = 0 THEN 0 ELSE halfLoop(n, 0, 0)

\* the first loop of MoveKeysFrom, from the pointer at index i on: the size
\* of the entries it passes, their number, and the offset it leaves in off
RECURSIVE moveCount(_, _)
moveCount(n, i) ==
    IF i >= n.numKeys THEN [totalSize |-> 0, numKeys |-> 0, off |-> i * KeyCellSize,
                            panic |-> FALSE]
    ELSE [totalSize |-> moveCount(n, i + 1).totalSize + KeyCellSize
                          + ValueCell_Size(ValueCellIn(n, KeyPtrCellAt(n, i))),
          numKeys |-> moveCount(n, i + 1).numKeys + 1,
          off |-> moveCount(n, i + 1).off,
          panic |-> moveCount(n, i + 1).panic
                      \/ KeyPtrCell_IsDeleted(KeyPtrCellAt(n, i))]

\* the pointer table of to after the two copies: its cells moved up by
\* numKeys places, then the cells of n from off to the end of n's table laid
\* over its start
movedTable(n, to, numKeys, off) ==
    [i \in 1..(numKeys + to.numKeys) |->
        IF i <= n.numKeys - (off \div KeyCellSize) /\ i <= numKeys
        THEN KeyPtrCellAt(n, (off \div KeyCellSize) + i - 1)
        ELSE IF i <= numKeys THEN KeyPtrCellAt(to, i - 1)
        ELSE KeyPtrCellAt(to, i - 1 - numKeys)]

\* after the first loop gave c and to was made to have room: the copies, the
\* second loop, which starts at the offset the first loop left and so has
\* nothing to do (entered, it would meet the pointer it has just deleted
\* again), and the counters, Occupied being restored on n
moveInto(n, to, c) ==
    [n |-> [n EXCEPT !.numKeys = Uint16(n.numKeys - c.numKeys),
                     !.occupied = Uint16(Uint16(n.occupied - c.totalSize) + c.totalSize)],
     to |-> [to EXCEPT !.ptrs = movedTable(n, to, c.numKeys, c.off),
                       !.numKeys = Uint16(to.numKeys + c.numKeys)],
     panic |-> c.off < n.numKeys * KeyCellSize]

\* returns [n, to, panic]
Node_MoveKeysFrom(n, to, off) ==
    IF moveCount(n, off \div KeyCellSize).panic THEN [n |-> n, to |-> to, panic |-> TRUE]
    ELSE IF moveCount(n, off \div KeyCellSize).totalSize <= Node_FreeSpace(to)
    THEN moveInto(n, to, moveCount(n, off \div KeyCellSize))
    ELSE IF moveCount(n, off \div KeyCellSize).totalSize > Node_UnfragmentedFreeSpace(to)
            \/ Node_Compact(to).panic
    THEN [n |-> n, to |-> to, panic |-> TRUE]
    ELSE moveInto(n, Node_Compact(to).n, moveCount(n, off \div KeyCellSize))

\* returns [n, to, panic], to being the new node
Node_Split(n) ==
    Node_MoveKeysFrom(n, AllocNode(n.typ), Node_HalfSizeK(n) * KeyCellSize)

\* the outcome of the node call in progress
NoNodeCall == [op |-> "idle", idx |-> 0, ok |-> FALSE, panic |-> FALSE,
               freed |-> 0, spl |-> AllocNode(TestTyp)]

\* the outcome of the storage call in progress: the id it was about, the
\* slice it was given (arg) and what it returned (b, ok, err)
NoStorageCall == [op |-> "idle", id |-> 0, arg |-> NilBuf, b |-> NilBuf,
                  ok |-> FALSE, err |-> FALSE]

\* NewBTree(degree) and NewMemoryStorage()
Init ==
    /\ deg \in Degrees
    /\ root = 1
    /\ heap = (1 :> newLeafNode(deg - 1))
    /\ height = 0
    /\ ref = [k \in DeepKeys |-> NilVal]
    /\ last = NoCall
    /\ data = NewMemoryStorage
    /\ sres = NoStorageCall
    /\ pnode = AllocNode(TestTyp)
    /\ pres = NoNodeCall

\* the tree after a call that returned r
Install(r) ==
    /\ heap' = Collect(r.h, r.root)
    /\ root' = IndexIn(Live(r.h, r.root), r.root)
    /\ height' = r.height

InstallDel(r, k) ==
    /\ Install(r)
    /\ last' = [NoCall EXCEPT !.op = "del", !.key = k, !.del = r.del,
                              !.panic = r.panic, !.ht0 = height]

Set(k, v) ==
    /\ UNCHANGED <<storeVars, nodeVars>>
    /\ last.op = "idle"
    /\ Install(SetOp(heap, root, height, deg, k, v))
    /\ ref' = [ref EXCEPT ![k] = v]
    /\ last' = [NoCall EXCEPT !.op = "set", !.key = k, !.val = v, !.ht0 = height]
    /\ UNCHANGED deg

\* b.SetOp(k, v) by a caller that holds the value reference it got for k
\* from GetOp, as the update tests do
Overwrite(k, v) ==
    /\ UNCHANGED <<storeVars, nodeVars>>
    /\ last.op = "idle"
    /\ GetOp(heap, root, k) # NilVal
    /\ Install(SetOp(heap, root, height, deg, k, v))
    /\ ref' = [ref EXCEPT ![k] = v]
    /\ last' = [NoCall EXCEPT !.op = "set", !.key = k, !.val = v, !.ht0 = height,
                              !.old = GetOp(heap, root, k)]
    /\ UNCHANGED deg

Delete(k) ==
    /\ UNCHANGED <<storeVars, nodeVars>>
    /\ last.op = "idle"
    /\ InstallDel(DelOp(heap, root, height, k, FALSE), k)
    /\ ref' = [ref EXCEPT ![k] = NilVal]
    /\ UNCHANGED deg

\* b.DelOp(k, true)
DeleteLazy(k) ==
    /\ UNCHANGED <<storeVars, nodeVars>>
    /\ last.op = "idle"
    /\ Install(DelOp(heap, root, height, k, TRUE))
    /\ last' = [NoCall EXCEPT !.op = "lazydel", !.key = k, !.ht0 = height,
                              !.del = DelOp(heap, root, height, k, TRUE).del,
                              !.panic = DelOp(heap, root, height, k, TRUE).panic]
    /\ UNCHANGED <<deg, ref>>

Get(k) ==
    /\ UNCHANGED <<storeVars, nodeVars>>
    /\ last.op = "idle"
    /\ last' = [NoCall EXCEPT !.op = "get", !.key = k, !.ht0 = height,
                              !.val = GetOp(heap, root, k)]
    /\ UNCHANGED <<heap, root, deg, height, ref>>

\* for k, v := range b.Range(low, high) with a consumer that takes every pair;
\* Scan(NilKey, NilKey) is b.All()
Scan(low, high) ==
    /\ UNCHANGED <<storeVars, nodeVars>>
    /\ last.op = "idle"
    /\ last' = [NoCall EXCEPT !.op = "range", !.key = low, !.high = high,
                              !.ht0 = height,
                              !.out = Range(heap, root, low, high)]
    /\ UNCHANGED <<heap, root, deg, height, ref>>

\* for k, v := range b.Range(low, high) with a consumer that breaks out of
\* the loop in its n-th round
ScanStop(low, high, n) ==
    /\ UNCHANGED <<storeVars, nodeVars>>
    /\ last.op = "idle"
    /\ last' = [NoCall EXCEPT !.op = "stop", !.key = low, !.high = high,
                              !.ht0 = height, !.stop = n,
                              !.out = baseIterator(heap, root, low, high, n)]
    /\ UNCHANGED <<heap, root, deg, height, ref>>

\* the caller takes the outcome; a panic is fatal and nothing follows it
Return ==
    /\ UNCHANGED <<storeVars, nodeVars>>
    /\ last.op # "idle"
    /\ ~last.panic
    /\ last' = NoCall
    /\ UNCHANGED <<heap, root, deg, height, ref>>

\* the value the callers of SpecTree and SpecIter store under key k
ValOf(k) == (k % MaxVal) + 1

\* bounds of a range: nil, every key, and one past the largest key
Bounds == 0..(MaxKey + 1)

Next ==
    \/ \E k \in FewKeys, v \in Vals : Set(k, v)
    \/ \E k \in FewKeys : Delete(k)
    \/ \E k \in Keys : Get(k)
    \/ Return

Spec == Init /\ [][Next]_vars

NextTree ==
    \/ \E k \in Keys : Set(k, ValOf(k))
    \/ \E k \in Keys : Delete(k)
    \/ Return

SpecTree == Init /\ [][NextTree]_vars

NextIter ==
    \/ \E k \in Keys : Set(k, ValOf(k))
    \/ \E k \in Keys : Delete(k)
    \/ \E low \in Bounds, high \in Bounds : Scan(low, high)
    \/ Return

SpecIter == Init /\ [][NextIter]_vars

\* the keys of the callers that update what they have read
OverKeys == 1..(MaxKey - 3)

NextOver ==
    \/ \E k \in OverKeys, v \in Vals : Set(k, v)
    \/ \E k \in OverKeys, v \in Vals : Overwrite(k, v)
    \/ \E k \in OverKeys : Delete(k)
    \/ Return

SpecOver == Init /\ [][NextOver]_vars

\* the rounds in which a consumer breaks out
Stops == 1..MaxStop

NextStop ==
    \/ \E k \in FewKeys : Set(k, ValOf(k))
    \/ \E k \in FewKeys : Delete(k)
    \/ \E low \in Bounds, high \in Bounds, n \in Stops : ScanStop(low, high, n)
    \/ Return

SpecStop == Init /\ [][NextStop]_vars

NextLazy ==
    \/ \E k \in Keys : Set(k, ValOf(k))
    \/ \E k \in Keys : Delete(k)
    \/ \E k \in Keys : DeleteLazy(k)
    \/ Return

SpecLazy == Init /\ [][NextLazy]_vars

\* a caller that only sets keys, drawn from GrowKeys
NextGrow ==
    \/ \E k \in GrowKeys : Set(k, ValOf(k))
    \/ Return

SpecGrow == Init /\ [][NextGrow]_vars

\* the rebalances InternalNode.delete makes while delete(key) returns up
\* the tree from the leaf: for each the heap after the child's delete, the
\* parent and the index of the child that needs rebalance, lowest first
RECURSIVE Rebalances(_, _, _)
\* cd is what child.delete(key) returned, below what went on under the child
rebalancesAfter(cd, nid, ci, child, below) ==
    IF cd.panic \/ ~cd.del \/ ~needsRebalance(cd.h[child]) THEN below
    ELSE Append(below, [h |-> cd.h, tid |-> nid, ci |-> ci])

rebalancesUnder(h, nid, key, ci, child) ==
    rebalancesAfter(delete(h, child, key), nid, ci, child, Rebalances(h, child, key))

Rebalances(h, nid, key) ==
    IF h[nid].isLeaf THEN <<>>
    ELSE rebalancesUnder(h, nid, key, childIndexForKey(h[nid], key),
                         At(h[nid].pointers, childIndexForKey(h[nid], key)))

\* which of the four returns of siblingPair(i) is taken
siblingPick(h, tid, i) ==
    IF i = 0 THEN "first"
    ELSE IF i = NodeLen(h[tid]) - 1 THEN "last"
    ELSE IF NodeLen(h[At(h[tid].pointers, i - 1)]) >= NodeLen(h[At(h[tid].pointers, i + 1)])
    THEN "left"
    ELSE "right"

\* left.rebalanceWith(right, t.keys[dkIdx]) for the pair sp of parent tid
rebalanceOf(h, tid, sp) == rebalanceWith(h, sp[1], sp[2], At(h[tid].keys, sp[3]))

\* what a rebalance was: of leaves or not, a merge (nil returned) or not,
\* and the return of siblingPair taken
rebalanceKind(e) ==
    [leaf |-> e.h[At(e.h[e.tid].pointers, e.ci)].isLeaf,
     merged |-> rebalanceOf(e.h, e.tid, siblingPair(e.h, e.tid, e.ci)).upKey = NilKey,
     pick |-> siblingPick(e.h, e.tid, e.ci)]

rebalanceKinds(evs) == [i \in 1..Len(evs) |-> rebalanceKind(evs[i])]

\* b.DelOp(k, false) with the rebalances it made on record
DeleteTraced(k) ==
    /\ UNCHANGED <<storeVars, nodeVars>>
    /\ last.op = "idle"
    /\ Install(DelOp(heap, root, height, k, FALSE))
    /\ last' = [NoCall EXCEPT !.op = "del", !.key = k,
                              !.del = DelOp(heap, root, height, k, FALSE).del,
                              !.panic = DelOp(heap, root, height, k, FALSE).panic,
                              !.ht0 = height,
                              !.trace = rebalanceKinds(Rebalances(heap, root, k))]
    /\ ref' = [ref EXCEPT ![k] = NilVal]
    /\ UNCHANGED deg

\* degrees up to one where a leaf redistribution has an odd total
RebalDegrees == 3..(MaxDegree + 1)

InitRebal ==
    /\ deg \in RebalDegrees
    /\ root = 1
    /\ heap = (1 :> newLeafNode(deg - 1))
    /\ height = 0
    /\ ref = [k \in DeepKeys |-> NilVal]
    /\ last = NoCall
    /\ data = NewMemoryStorage
    /\ sres = NoStorageCall
    /\ pnode = AllocNode(TestTyp)
    /\ pres = NoNodeCall

NextRebal ==
    \/ \E k \in Keys : Set(k, ValOf(k))
    \/ \E k \in Keys : DeleteTraced(k)
    \/ Return

SpecRebal == InitRebal /\ [][NextRebal]_vars

\* the greatest key the reference map holds, 0 if none
TopKey == IF \A k \in DeepKeys : ref[k] = NilVal THEN 0
          ELSE CHOOSE k \in DeepKeys :
                   ref[k] # NilVal /\ \A j \in DeepKeys : j > k => ref[j] = NilVal

\* a caller that sets keys in ascending order, as the health tests fill
\* their trees, and deletes low keys at any time
NextDeep ==
    \/ \E k \in DeepKeys : k = TopKey + 1 /\ Set(k, ValOf(k))
    \/ \E k \in FewKeys : DeleteTraced(k)
    \/ Return

SpecDeep == Init /\ [][NextDeep]_vars

\* id, pg, err := sm.Alloc()
StAlloc ==
    /\ sres.op = "idle"
    /\ \E id \in PageIds :
          /\ MemoryStorage_Alloc(data, id).done
          /\ data' = MemoryStorage_Alloc(data, id).d
          /\ sres' = [NoStorageCall EXCEPT !.op = "alloc",
                                           !.id = MemoryStorage_Alloc(data, id).id,
                                           !.b = MemoryStorage_Alloc(data, id).b,
                                           !.err = MemoryStorage_Alloc(data, id).err]
    /\ UNCHANGED <<treeVars, nodeVars>>

StExists(id) ==
    /\ sres.op = "idle"
    /\ sres' = [NoStorageCall EXCEPT !.op = "exists", !.id = id,
                                     !.ok = MemoryStorage_Exists(data, id)]
    /\ UNCHANGED <<data, treeVars, nodeVars>>

StRead(id) ==
    /\ sres.op = "idle"
    /\ sres' = [NoStorageCall EXCEPT !.op = "read", !.id = id,
                                     !.b = MemoryStorage_Read(data, id).b,
                                     !.ok = MemoryStorage_Read(data, id).ok]
    /\ UNCHANGED <<data, treeVars, nodeVars>>

StWrite(id, buf) ==
    /\ sres.op = "idle"
    /\ data' = MemoryStorage_Write(data, id, buf).d
    /\ sres' = [NoStorageCall EXCEPT !.op = "write", !.id = id, !.arg = buf,
                                     !.err = MemoryStorage_Write(data, id, buf).err]
    /\ UNCHANGED <<treeVars, nodeVars>>

StDelete(id) ==
    /\ sres.op = "idle"
    /\ data' = MemoryStorage_Delete(data, id).d
    /\ sres' = [NoStorageCall EXCEPT !.op = "delete", !.id = id,
                                     !.err = MemoryStorage_Delete(data, id).err]
    /\ UNCHANGED <<treeVars, nodeVars>>

\* rand.Read(pg): the caller fills the slice Alloc or Read gave it, which
\* is the slice the map holds
StFill(id, c) ==
    /\ sres.op = "idle"
    /\ MemoryStorage_Exists(data, id)
    /\ data' = [data EXCEPT ![id].fill = c]
    /\ UNCHANGED <<sres, treeVars, nodeVars>>

StReturn ==
    /\ sres.op # "idle"
    /\ sres' = NoStorageCall
    /\ UNCHANGED <<data, treeVars, nodeVars>>

NextStore ==
    \/ StAlloc
    \/ \E id \in PageIds : StExists(id)
    \/ \E id \in PageIds : StRead(id)
    \/ \E id \in PageIds, buf \in Buffers : StWrite(id, buf)
    \/ \E id \in PageIds : StDelete(id)
    \/ \E id \in PageIds, c \in Fills : StFill(id, c)
    \/ StReturn

SpecStore == Init /\ [][NextStore]_vars

(***************************************************************************)
(* Calls on a slotted page node, as the node tests make them: the node is  *)
(* AllocNode(0xff), the keys are hashes that differ from one another and   *)
(* each value is the number that goes with its key.                        *)
(***************************************************************************)
SlotIndexes == 0..MaxSlots

\* the first key that no pointer of the table carries
FreshKey(n) ==
    CHOOSE k \in 1..(MaxSlots + 1) :
        /\ \A i \in 0..(n.numKeys - 1) : KeyPtrCellAt(n, i).head # k
        /\ \A j \in 1..(k - 1) : \E i \in 0..(n.numKeys - 1) : KeyPtrCellAt(n, i).head = j

\* node.InsertAt(key, value, index), at the front as FillNode does or after
\* the last key as the split test does
NdInsert(index, vlen) ==
    /\ pres.op = "idle"
    /\ index \in {0, pnode.numKeys}
    /\ pnode.numKeys < MaxSlots
    /\ pnode' = Node_InsertAt(pnode, FreshKey(pnode), HashLen, FreshKey(pnode),
                              vlen, index).n
    /\ pres' = [NoNodeCall EXCEPT
                   !.op = "insert", !.idx = index,
                   !.ok = Node_InsertAt(pnode, FreshKey(pnode), HashLen,
                                        FreshKey(pnode), vlen, index).ok,
                   !.panic = Node_InsertAt(pnode, FreshKey(pnode), HashLen,
                                           FreshKey(pnode), vlen, index).panic]
    /\ UNCHANGED <<treeVars, storeVars>>

\* node.DeleteAtIndex(i)
NdDelete(i) ==
    /\ pres.op = "idle"
    /\ pnode' = Node_DeleteAtIndex(pnode, i).n
    /\ pres' = [NoNodeCall EXCEPT !.op = "delete", !.idx = i,
                                  !.ok = Node_DeleteAtIndex(pnode, i).ok,
                                  !.panic = Node_DeleteAtIndex(pnode, i).panic]
    /\ UNCHANGED <<treeVars, storeVars>>

\* node.Compact()
NdCompact ==
    /\ pres.op = "idle"
    /\ pnode' = Node_Compact(pnode).n
    /\ pres' = [NoNodeCall EXCEPT !.op = "compact",
                                  !.freed = Node_Compact(pnode).freed,
                                  !.panic = Node_Compact(pnode).panic]
    /\ UNCHANGED <<treeVars, storeVars>>

\* spl := node.Split()
NdSplit ==
    /\ pres.op = "idle"
    /\ pnode' = Node_Split(pnode).n
    /\ pres' = [NoNodeCall EXCEPT !.op = "split",
                                  !.idx = Node_HalfSizeK(pnode),
                                  !.spl = Node_Split(pnode).to,
                                  !.panic = Node_Split(pnode).panic]
    /\ UNCHANGED <<treeVars, storeVars>>

\* the split test ends with the two nodes Split left; the next test takes a
\* node of its own
NdRelease ==
    /\ pres.op = "split"
    /\ ~pres.panic
    /\ pnode' = AllocNode(TestTyp)
    /\ pres' = NoNodeCall
    /\ UNCHANGED <<treeVars, storeVars>>

NdReturn ==
    /\ pres.op \notin {"idle", "split"}
    /\ ~pres.panic
    /\ pres' = NoNodeCall
    /\ UNCHANGED <<pnode, treeVars, storeVars>>

NextNode ==
    \/ \E index \in SlotIndexes, vlen \in ValLens : NdInsert(index, vlen)
    \/ \E i \in SlotIndexes : NdDelete(i)
    \/ NdCompact
    \/ NdReturn

SpecNode == Init /\ [][NextNode]_vars

NextSplit ==
    \/ \E index \in SlotIndexes, vlen \in ValLens : NdInsert(index, vlen)
    \/ NdSplit
    \/ NdRelease
    \/ NdReturn

SpecSplit == Init /\ [][NextSplit]_vars

\* NewBTree(degree) takes any degree that make() takes.  Of the degrees
\* below 3, NewBTree(2) gives a tree on which SetOp and GetOp run (DelOp can
\* index past a node's pointers and is not called here); the first SetOp on
\* NewBTree(1) fails on a slice bound and NewBTree(0) fails in make.
SmallDegrees == {2}

InitSmall ==
    /\ deg \in SmallDegrees
    /\ root = 1
    /\ heap = (1 :> newLeafNode(deg - 1))
    /\ height = 0
    /\ ref = [k \in DeepKeys |-> NilVal]
    /\ last = NoCall
    /\ data = NewMemoryStorage
    /\ sres = NoStorageCall
    /\ pnode = AllocNode(TestTyp)
    /\ pres = NoNodeCall

NextSmall ==
    \/ \E k \in Keys : Set(k, ValOf(k))
    \/ \E k \in Keys : Get(k)
    \/ Return

SpecSmall == InitSmall /\ [][NextSmall]_vars

(***************************************************************************)
(* What the claims speak of: the nodes of the tree, the keys below a node, *)
(* the depths of the leaves, the leaf chain, the reference map's content   *)
(***************************************************************************)
Children(id) == {heap[id].pointers[i] : i \in 1..Len(heap[id].pointers)}

RECURSIVE Below(_, _)
Below(done, todo) ==
    IF todo = {} THEN done
    ELSE Below(done \cup todo, (UNION {Children(id) : id \in todo}) \ (done \cup todo))

\* the nodes the root leads to through child pointers
TreeNodes == Below({}, {root})

Leaves == {id \in TreeNodes : heap[id].isLeaf}

Internals == {id \in TreeNodes : ~heap[id].isLeaf}

SeqSet(s) == {s[i] : i \in 1..Len(s)}

RECURSIVE SubtreeKeys(_)
SubtreeKeys(id) ==
    IF heap[id].isLeaf THEN SeqSet(heap[id].keys)
    ELSE UNION {SubtreeKeys(c) : c \in Children(id)}

\* the number of internal nodes above each leaf below id, id at depth d
RECURSIVE LeafDepths(_, _)
LeafDepths(id, d) ==
    IF heap[id].isLeaf THEN {d}
    ELSE UNION {LeafDepths(c, d + 1) : c \in Children(id)}

RECURSIVE Leftmost(_)
Leftmost(id) == IF heap[id].isLeaf THEN id ELSE Leftmost(heap[id].pointers[1])

\* the leaves met following next from id, at most fuel of them
RECURSIVE ChainFrom(_, _)
ChainFrom(id, fuel) ==
    IF id = NilNode \/ fuel = 0 THEN <<>>
    ELSE <<id>> \o ChainFrom(heap[id].next, fuel - 1)

\* one more than the nodes there are: a longer chain would be a cycle
Chain == ChainFrom(Leftmost(root), Cardinality(DOMAIN heap) + 1)

RECURSIVE Flatten(_)
Flatten(ss) == IF ss = <<>> THEN <<>> ELSE Head(ss) \o Flatten(Tail(ss))

ChainKeys == Flatten([i \in 1..Len(Chain) |-> heap[Chain[i]].keys])

ChainValues == Flatten([i \in 1..Len(Chain) |-> heap[Chain[i]].values])

StrictlyIncreasing(s) == \A i \in 1..(Len(s) - 1) : s[i] < s[i + 1]

Present == {k \in Keys : ref[k] # NilVal}

\* the pairs of the reference map with low <= key < high, by ascending key;
\* NilKey is no bound
RECURSIVE PairsFrom(_, _, _)
PairsFrom(k, low, high) ==
    IF k > MaxKey THEN <<>>
    ELSE (IF ref[k] # NilVal /\ low <= k /\ (high = NilKey \/ k < high)
          THEN <<(<<k, ref[k]>>)>> ELSE <<>>) \o PairsFrom(k + 1, low, high)

RefRange(low, high) == PairsFrom(1, low, high)

(***************************************************************************)
(* Claims                                                                  *)
(***************************************************************************)

\* C1: after any sequence of Set and Delete on a fresh tree of any degree,
\* Get(k) is, for every key k, what the reference map driven by the same
\* sequence holds: the value of the most recent Set(k, v) not followed by a
\* Delete(k), and nil when k was never set or was deleted since; and a Get
\* call returned just that.
C1_GetAgreesWithMap ==
    /\ \A k \in Keys : GetOp(heap, root, k) = ref[k]
    /\ last.op = "get" => last.val = ref[last.key]

\* C1 witness: a Get through two levels of internal nodes returned the
\* second value while another key is absent and a third holds the first value
C1_Witness ==
    /\ last.op = "get" /\ last.val = 2 /\ height = 2
    /\ \E j \in Keys : ref[j] = NilVal
    /\ \E j \in Keys : ref[j] = 1

\* C2: a Delete(k) returns true exactly when k was in the tree when it was
\* called; after one that returned true Get(k) is nil and a second Delete(k)
\* returns false; every other key has the value reference it had before.
C2_DeleteContract ==
    [][(last.op = "idle" /\ last'.op = "del") =>
          /\ last'.del = (GetOp(heap, root, last'.key) # NilVal)
          /\ last'.del =>
                /\ GetOp(heap', root', last'.key) = NilVal
                /\ ~DelOp(heap', root', height', last'.key, FALSE).del
          /\ \A j \in Keys \ {last'.key} :
                GetOp(heap', root', j) = GetOp(heap, root, j)]_vars

\* C2 witness: a Delete returned true in a tree of height 2 at the call,
\* leaving other keys behind
C2_Witness ==
    /\ last.op = "del" /\ last.del /\ last.ht0 = 2
    /\ Cardinality(Present) >= 2

\* C3: every non-root leaf holds between ceil((d-1)/2) and d-1 keys, every
\* non-root internal node between ceil(d/2) and d pointers; the root holds
\* at most d-1 keys or d pointers and has no minimum.
C3_FillBounds ==
    \A id \in TreeNodes :
        IF heap[id].isLeaf
        THEN /\ Len(heap[id].keys) <= deg - 1
             /\ id # root => Len(heap[id].keys) >= ceilDiv(deg - 1, 2)
        ELSE /\ Len(heap[id].pointers) <= deg
             /\ id # root => Len(heap[id].pointers) >= ceilDiv(deg, 2)

\* C3 witness: a Delete removed a key from a tree of height 2 and left a
\* non-root internal node with the least number of pointers and a full leaf
C3_Witness ==
    /\ last.op = "del" /\ last.del /\ height = 2
    /\ \E id \in Internals \ {root} : Len(heap[id].pointers) = ceilDiv(deg, 2)
    /\ \E id \in Leaves : Len(heap[id].keys) = deg - 1

\* C4: for every internal node and every separator keys[i], every key below
\* children[i] is less than keys[i] and every key below children[i+1] is
\* greater than or equal to it.
C4_Separators ==
    \A id \in Internals :
        \A i \in 1..Len(heap[id].keys) :
            /\ \A k \in SubtreeKeys(heap[id].pointers[i]) : k < heap[id].keys[i]
            /\ \A k \in SubtreeKeys(heap[id].pointers[i + 1]) : k >= heap[id].keys[i]

\* C4 witness: a Delete removed a key that an internal node of a tree of
\* height 2 still holds as a separator
C4_Witness ==
    /\ last.op = "del" /\ last.del /\ height = 2
    /\ \E id \in Internals : last.key \in SeqSet(heap[id].keys)

\* C5: following next from the leftmost leaf to nil visits every key of the
\* tree exactly once in strictly ascending order, as many keys as there are
\* distinct keys in the tree.
C5_ChainVisitsAllKeys ==
    /\ Len(Chain) <= Cardinality(DOMAIN heap)
    /\ StrictlyIncreasing(ChainKeys)
    /\ SeqSet(ChainKeys) = Present
    /\ Len(ChainKeys) = Cardinality(Present)

\* C5 witness: after a Delete that lowered the height, a chain of three
\* leaves or more
C5_Witness ==
    /\ last.op = "del" /\ last.del /\ last.ht0 = height + 1
    /\ Len(Chain) >= 3

\* C6: Range(low, high) yields exactly the stored pairs with
\* low <= key < high in ascending order (nil: no bound), also when the lower
\* bound of low in the leaf the descent reaches is that leaf's length.
C6_RangeYieldsInterval ==
    last.op = "range" => last.out = RefRange(last.key, last.high)

\* C7: All(), and Range(first key, nil), yield every stored pair exactly once
\* in strictly ascending key order; on an empty tree they yield nothing.
C7_AllYieldsEverything ==
    /\ All(heap, root) = RefRange(NilKey, NilKey)
    /\ \A k \in Present :
           (\A j \in Present : k <= j) =>
               Range(heap, root, k, NilKey) = RefRange(NilKey, NilKey)
    /\ (last.op = "range" /\ last.high = NilKey
            /\ \A j \in Present : last.key <= j)
           => last.out = RefRange(NilKey, NilKey)

\* C7 witness: All() on a tree of height 2 yielded five pairs or more, the
\* tree having been through a Delete that lowered its height before
C7_Witness ==
    /\ last.op = "range" /\ last.key = NilKey /\ last.high = NilKey
    /\ Len(last.out) >= 5 /\ height = 2 /\ Len(Chain) >= 4

\* C8: all leaves are at the same depth.
C8_LeavesSameDepth == Cardinality(LeafDepths(root, 0)) = 1

\* C8 witness: a Delete replaced the root by its only child, the new root
\* being an internal node
C8_Witness ==
    /\ last.op = "del" /\ last.ht0 = height + 1 /\ height >= 1

\* C9: every internal node, the root included, has one pointer more than
\* keys, strictly increasing keys and pairwise distinct child pointers.
C9_InternalShape ==
    \A id \in Internals :
        /\ Len(heap[id].pointers) = Len(heap[id].keys) + 1
        /\ StrictlyIncreasing(heap[id].keys)
        /\ \A i, j \in 1..Len(heap[id].pointers) :
               i # j => heap[id].pointers[i] # heap[id].pointers[j]

\* C9 witness: a Set split the root of a tree of height 1, leaving two
\* internal nodes under a new root
C9_Witness ==
    /\ last.op = "set" /\ last.ht0 = 1 /\ height = 2
    /\ Cardinality(Internals) = 3

\* C10: every leaf has strictly increasing keys, as many value references as
\* keys, and a nil next or a next leaf whose first key is greater than its
\* own last key.
C10_LeafShape ==
    \A id \in Leaves :
        /\ StrictlyIncreasing(heap[id].keys)
        /\ Len(heap[id].values) = Len(heap[id].keys)
        /\ heap[id].next # NilNode =>
               /\ heap[id].next \in DOMAIN heap
               /\ heap[heap[id].next].isLeaf
               /\ heap[id].keys # <<>> /\ heap[heap[id].next].keys # <<>>
               /\ heap[id].keys[Len(heap[id].keys)] < heap[heap[id].next].keys[1]

\* C10 witness: a Delete merged or redistributed leaves and left three
\* linked leaves or more, one of them full
C10_Witness ==
    /\ last.op = "del" /\ last.del
    /\ Cardinality({id \in Leaves : heap[id].next # NilNode}) >= 2
    /\ \E id \in Leaves : Len(heap[id].keys) = deg - 1

(***************************************************************************)
(* The height bound of the health tests                                    *)
(***************************************************************************)
\* int(logBase(x, base)) for x >= 1 and base >= 2
RECURSIVE logBase(_, _)
logBase(x, base) == IF x < base THEN 0 ELSE 1 + logBase(x \div base, base)

maxPermissibleMapHeight(nKeys, degree) ==
    IF nKeys < degree - 1 THEN 1
    ELSE logBase(nKeys \div ceilDiv(degree - 1, 2), ceilDiv(degree, 2)) + 1

\* the number of keys the tree holds
nKeysNow == Cardinality(Present)

\* C11: with N keys left in a tree of degree d after any Sets and Deletes,
\* the height field is at most floor(log base ceil(d/2) of
\* floor(N / ceil((d-1)/2))) + 1, and at most 1 when N < d-1.
C11_HeightBound ==
    /\ height <= maxPermissibleMapHeight(nKeysNow, deg)
    /\ nKeysNow < deg - 1 => height <= 1
    /\ nKeysNow >= deg - 1 =>
           /\ nKeysNow \div ceilDiv(deg - 1, 2) >= 1
           /\ height <= logBase(nKeysNow \div ceilDiv(deg - 1, 2), ceilDiv(deg, 2)) + 1

\* a delete has shrunk a tree of height 2 to height 1, few keys are left
C11_Witness ==
    /\ last.op = "del" /\ last.del
    /\ last.ht0 = 2 /\ height = 1
    /\ nKeysNow = 3

\* C12: a Delete(k) of a key that is not in the tree returns false and
\* leaves the root, the height and every node (keys, values, pointers, next)
\* as they were: nothing is rebalanced, the root is not replaced.
C12_AbsentDeleteChangesNothing ==
    [][(last.op = "idle" /\ last'.op = "del" /\ ref[last'.key] = NilVal) =>
          /\ ~last'.del /\ ~last'.panic
          /\ DelOp(heap, root, height, last'.key, FALSE).h = heap
          /\ DelOp(heap, root, height, last'.key, FALSE).root = root
          /\ DelOp(heap, root, height, last'.key, FALSE).height = height
          /\ root' = root /\ height' = height
          /\ DOMAIN heap' = DOMAIN heap
          /\ \A id \in DOMAIN heap : heap'[id] = heap[id]]_vars

\* an absent key was deleted from a tree of height 2 whose leaves are all
\* at their minimum: any removal would have started a rebalance
C12_Witness ==
    /\ last.op = "del" /\ ~last.del /\ ref[last.key] = NilVal
    /\ height = 2
    /\ \A id \in Leaves : Len(heap[id].keys) = heap[id].minCount

\* node n2 is node n1 but for the value references stored under key, which
\* are value
SameButValue(n1, n2, key, value) ==
    /\ n2.isLeaf = n1.isLeaf
    /\ n2.keys = n1.keys
    /\ n2.pointers = n1.pointers
    /\ n2.next = n1.next
    /\ Len(n2.values) = Len(n1.values)
    /\ \A i \in 1..Len(n1.values) :
           IF n1.keys[i] = key THEN n2.values[i] = value
           ELSE n2.values[i] = n1.values[i]

\* r, the outcome of a SetOp on the tree as it is, has its root, its height
\* and its nodes, but for the value under key
OnlyValueReplaced(r, key, value) ==
    /\ r.root = root
    /\ r.height = height
    /\ DOMAIN r.h = DOMAIN heap
    /\ \A id \in DOMAIN heap : SameButValue(heap[id], r.h[id], key, value)

\* C13: a Set(k, v) of a key that is in the tree replaces the value
\* reference stored for k and nothing else: no node is split or made, the
\* height, the keys and pointers of every node, the leaf chain and the
\* number of keys stay, also when the leaf that holds k is full.
C13_OverwriteOnlyReplacesValue ==
    [][(last.op = "idle" /\ last'.op = "set" /\ ref[last'.key] # NilVal) =>
          /\ OnlyValueReplaced(SetOp(heap, root, height, deg, last'.key, last'.val),
                               last'.key, last'.val)
          /\ root' = root /\ height' = height
          /\ DOMAIN heap' = DOMAIN heap
          /\ \A id \in DOMAIN heap :
                SameButValue(heap[id], heap'[id], last'.key, last'.val)
          /\ Chain' = Chain
          /\ ChainKeys' = ChainKeys
          /\ GetOp(heap', root', last'.key) = last'.val]_vars

\* a Set gave another value to a key held by a full leaf below an internal
\* root
C13_Witness ==
    /\ last.op = "set" /\ last.old # NilVal /\ last.old # last.val
    /\ height >= 1
    /\ \E id \in Leaves :
           /\ last.key \in SeqSet(heap[id].keys)
           /\ Len(heap[id].keys) = deg - 1

\* the tree is the one NewBTree(deg) makes: what a caller can do with it and
\* what comes of it is what comes of a fresh tree
IsFreshTree ==
    /\ height = 0
    /\ DOMAIN heap = {root}
    /\ heap[root] = newLeafNode(deg - 1)

\* C14: once every key that was inserted has been deleted, in whatever
\* orders, the height is 0 and the root is an empty leaf; the tree is then
\* as a fresh one, so that a key set again is retrievable (the node
\* invariants and the height bound hold in every reachable state, those
\* after a re-insertion included).
C14_EmptyAfterDeletingAll ==
    Present = {} =>
        /\ height = 0
        /\ heap[root].isLeaf
        /\ heap[root].keys = <<>> /\ heap[root].values = <<>>
        /\ IsFreshTree
        /\ \A k \in Keys :
               GetOp(SetOp(heap, root, height, deg, k, ValOf(k)).h,
                     SetOp(heap, root, height, deg, k, ValOf(k)).root, k) = ValOf(k)

\* the last key has just been deleted
C14_Witness ==
    /\ last.op = "del" /\ last.del
    /\ Present = {}

\* the tree is a single leaf root of height 0 that holds n keys
SingleLeaf(h, rt, ht, n) ==
    /\ ht = 0
    /\ DOMAIN h = {rt}
    /\ h[rt].isLeaf
    /\ Len(h[rt].keys) = n

\* the tree is an internal root of height 1 with one separator over two
\* leaves, the right one made by one split of the left one
OneSplit(h, rt, ht) ==
    /\ ht = 1
    /\ Cardinality(DOMAIN h) = 3
    /\ ~h[rt].isLeaf
    /\ Len(h[rt].keys) = 1 /\ Len(h[rt].pointers) = 2
    /\ h[h[rt].pointers[1]].isLeaf /\ h[h[rt].pointers[2]].isLeaf
    /\ h[rt].pointers[1] # h[rt].pointers[2]
    /\ h[h[rt].pointers[1]].next = h[rt].pointers[2]
    /\ h[h[rt].pointers[2]].next = NilNode
    /\ h[rt].keys[1] = h[h[rt].pointers[2]].keys[1]

\* C15: from a fresh tree of degree d, d-1 distinct keys set in any order
\* cause no split and leave a single leaf root of height 0; the d-th
\* distinct key causes exactly one leaf split, which installs an internal
\* root with one separator and two leaf children, and the height is 1.
\* (A tree of height 0 is a single leaf, which holds its keys in order
\* whatever the order they came in.)
C15_FirstSplitAtDegree ==
    [][(/\ last.op = "idle" /\ last'.op = "set"
        /\ height = 0 /\ ref[last'.key] = NilVal) =>
          /\ SingleLeaf(heap, root, height, nKeysNow)
          /\ nKeysNow <= deg - 1
          /\ nKeysNow < deg - 1 =>
                /\ SingleLeaf(heap', root', height', nKeysNow + 1)
                /\ root' = root
          /\ nKeysNow = deg - 1 =>
                /\ OneSplit(SetOp(heap, root, height, deg, last'.key, last'.val).h,
                            SetOp(heap, root, height, deg, last'.key, last'.val).root,
                            SetOp(heap, root, height, deg, last'.key, last'.val).height)
                /\ OneSplit(heap', root', height')
                /\ Len(ChainKeys') = deg]_vars

\* the d-th distinct key of a tree of the largest degree has just been set
C15_Witness ==
    /\ last.op = "set"
    /\ last.ht0 = 0 /\ height = 1
    /\ deg = MaxDegree /\ nKeysNow = deg

\* the root is a leaf or has two children at least
RootHasTwoChildren(h, rt) == ~h[rt].isLeaf => Len(h[rt].pointers) >= 2

\* b.root.delete(key) leaves an internal root with a single child
LeavesSingleChild(h, rt, key) ==
    /\ ~h[rt].isLeaf
    /\ delete(h, rt, key).del
    /\ Len(delete(h, rt, key).h[rt].pointers) = 1

\* C16: between calls an internal root has two child pointers at least.
\* A Delete that leaves the internal root with a single child replaces the
\* root by that child and takes exactly 1 off the height, within the same
\* Delete; the height changes in no other Delete, and one replacement is
\* enough: the new root is a leaf or has two children at least.
C16_RootReplacedOnce ==
    [][/\ RootHasTwoChildren(heap, root)
       /\ RootHasTwoChildren(heap', root')
       /\ (last.op = "idle" /\ last'.op = "del") =>
             IF LeavesSingleChild(heap, root, last'.key)
             THEN /\ height' = height - 1
                  /\ DelOp(heap, root, height, last'.key, FALSE).root
                        = delete(heap, root, last'.key).h[root].pointers[1]
                  /\ RootHasTwoChildren(DelOp(heap, root, height, last'.key, FALSE).h,
                                        DelOp(heap, root, height, last'.key, FALSE).root)
             ELSE /\ height' = height
                  /\ DelOp(heap, root, height, last'.key, FALSE).root = root]_vars

\* a Delete replaced the root of a tree of height 2 by an internal node
C16_Witness ==
    /\ last.op = "del" /\ last.del
    /\ last.ht0 = 2 /\ height = 1
    /\ ~heap[root].isLeaf /\ Len(heap[root].pointers) >= 2

\* C17: a tree of a degree below 3 (2 included) is not usable: NewBTree
\* rejects the degree, so no key is ever stored in such a tree and found
\* again.
C17_SmallDegreeRejected ==
    deg < 3 => \A k \in Keys : GetOp(heap, root, k) = NilVal

\* C18: a DelOp(key, true) fails on the assertion before it touches a
\* node: for every tree and every key the call panics, reports no deletion
\* and leaves the root, the height and every node as they were.
C18_LazyDeleteRejected ==
    [][(last.op = "idle" /\ last'.op = "lazydel") =>
          /\ last'.panic /\ ~last'.del
          /\ DelOp(heap, root, height, last'.key, TRUE).h = heap
          /\ DelOp(heap, root, height, last'.key, TRUE).root = root
          /\ DelOp(heap, root, height, last'.key, TRUE).height = height
          /\ root' = root /\ height' = height
          /\ DOMAIN heap' = DOMAIN heap
          /\ \A id \in DOMAIN heap : heap'[id] = heap[id]
          /\ GetOp(heap', root', last'.key) = ref[last'.key]]_vars

\* a lazy delete of a key the tree holds has failed on a tree of height 2
C18_Witness ==
    /\ last.op = "lazydel" /\ last.panic
    /\ height = 2
    /\ ref[last.key] # NilVal
    /\ GetOp(heap, root, last.key) = ref[last.key]

\* the first n elements of s, all of s if it has fewer
Prefix(s, n) == SubSeq(s, 1, IF n < Len(s) THEN n ELSE Len(s))

\* C19: once the consumer's yield has returned false the stream ends: no
\* further pair is yielded, also when the stop falls on the last key of a
\* leaf that has a next leaf; what was yielded is the beginning of what an
\* unstopped consumer gets; and iterating leaves the tree as it was.
C19_StopEndsStream ==
    [][(last.op = "idle" /\ last'.op = "stop") =>
          /\ Len(last'.out) <= last'.stop
          /\ last'.out = Prefix(Range(heap, root, last'.key, last'.high), last'.stop)
          /\ heap' = heap /\ root' = root /\ height' = height]_vars

\* the consumer stopped on the last key of a leaf that has a next leaf,
\* with more pairs to come
C19_Witness ==
    /\ last.op = "stop" /\ Len(last.out) = last.stop
    /\ Len(Range(heap, root, last.key, last.high)) > last.stop
    /\ \E id \in Leaves :
           /\ heap[id].next # NilNode
           /\ heap[id].keys[Len(heap[id].keys)] = last.out[Len(last.out)][1]

\* C20: for every tree and every non-nil key x, stored or not, Range(x, x)
\* yields no pair.
C20_EmptyRange ==
    /\ \A x \in Keys : Range(heap, root, x, x) = <<>>
    /\ (last.op = "range" /\ last.key # NilKey /\ last.key = last.high) =>
           last.out = <<>>

\* Range(x, x) was called for a stored key x that is not the first of its
\* leaf, in a tree of height 2
C20_Witness ==
    /\ last.op = "range" /\ last.key = last.high
    /\ last.key \in Present
    /\ height = 2
    /\ \E id \in Leaves, i \in 2..(deg - 1) :
           i <= Len(heap[id].keys) /\ heap[id].keys[i] = last.key

\* C21: Alloc returns a page id that was not in the storage and a page of
\* exactly PageSize bytes; afterwards Exists(id) is true, Read(id) returns
\* that page, and the pages there were have their ids and contents.
C21_AllocFreshPage ==
    [][(sres.op = "idle" /\ sres'.op = "alloc") =>
          /\ ~MemoryStorage_Exists(data, sres'.id)
          /\ ~sres'.err
          /\ sres'.b.len = PageSize
          /\ MemoryStorage_Exists(data', sres'.id)
          /\ MemoryStorage_Read(data', sres'.id) = [b |-> sres'.b, ok |-> TRUE]
          /\ DOMAIN data' = DOMAIN data \cup {sres'.id}
          /\ \A id \in DOMAIN data : data'[id] = data[id]]_vars

\* an Alloc has returned while other pages, one of them written, were held
C21_Witness ==
    /\ sres.op = "alloc"
    /\ Cardinality(DOMAIN data) >= 2
    /\ \E id \in DOMAIN data : id # sres.id /\ data[id].fill # 0

\* C22: for an id that is not in the storage Read returns (nil, false),
\* Write and Delete return an error, Exists returns false, and the stored
\* pages stay as they are; for an id that is in it Delete succeeds and the
\* id is gone, and after a Write of a PageSize slice Read returns what was
\* written.
C22_MissingAndExistingIds ==
    [][(sres.op = "idle" /\ sres'.op \in {"exists", "read", "write", "delete"}) =>
          IF ~MemoryStorage_Exists(data, sres'.id)
          THEN /\ data' = data
               /\ sres'.op = "exists" => ~sres'.ok
               /\ sres'.op = "read" => ~sres'.ok /\ sres'.b = NilBuf
               /\ sres'.op = "write" => sres'.err
               /\ sres'.op = "delete" => sres'.err
          ELSE /\ sres'.op = "delete" =>
                     ~sres'.err /\ ~MemoryStorage_Exists(data', sres'.id)
               /\ (sres'.op = "write" /\ sres'.arg.len = PageSize) =>
                     MemoryStorage_Read(data', sres'.id) = [b |-> sres'.arg, ok |-> TRUE]]_vars

\* old is the full leaf, L and R what the split made of it and of the new
\* pair put at idx, upKey what the caller of the split hands upwards
LeafSplitShape(old, L, R, idx, key, value, d, upKey) ==
    /\ Len(old.keys) = d - 1 /\ idx \in 0..(d - 1)
    /\ Len(L.keys) = ceilDiv(d - 1, 2)
    /\ Len(R.keys) = d - ceilDiv(d - 1, 2)
    /\ Len(L.keys) >= ceilDiv(d - 1, 2) /\ Len(R.keys) >= ceilDiv(d - 1, 2)
    /\ d % 2 = 0 => Len(L.keys) = Len(R.keys)
    /\ Len(L.values) = Len(L.keys) /\ Len(R.values) = Len(R.keys)
    /\ L.keys \o R.keys = InsertAt(old.keys, idx, key)
    /\ L.values \o R.values = InsertAt(old.values, idx, value)
    /\ StrictlyIncreasing(L.keys \o R.keys)
    /\ StrictlyIncreasing(L.keys) /\ StrictlyIncreasing(R.keys)
    /\ \A i \in 1..Len(L.keys) : \A j \in 1..Len(R.keys) : L.keys[i] < R.keys[j]
    /\ upKey = R.keys[1]

LeafSplitOf(h, lid, idx, key, value, d, r) ==
    LeafSplitShape(h[lid], r.h[lid], r.h[r.node], idx, key, value, d,
                   LeafNode_setOrInsertAt(h, lid, idx, key, value).key)

\* two leaves that follow each other in the chain hold ks1 and ks2
AdjacentLeaves(h, ch, ks1, ks2) ==
    \E i \in 1..(Len(ch) - 1) : h[ch[i]].keys = ks1 /\ h[ch[i + 1]].keys = ks2

SplitLeavesInstalled(h1, ch1, lid, r) ==
    AdjacentLeaves(h1, ch1, r.h[lid].keys, r.h[r.node].keys)

\* the leaf a Set of key comes to is full and does not hold key
SplitsLeaf(h, rt, key) ==
    /\ GetOp(h, rt, key) = NilVal
    /\ NodeLen(h[lbPositionedRef(h, rt, key)[1]]) = h[lbPositionedRef(h, rt, key)[1]].cap

\* C23: a new key inserted into a full leaf (d-1 keys), at any index
\* 0..d-1, leaves ceil((d-1)/2) keys in the leaf and d - ceil((d-1)/2) in
\* the new right leaf, so both hold ceil((d-1)/2) at least (equal halves
\* for even d); the d keys are there once each with their values, both
\* leaves are sorted, the keys of the left one are below those of the right
\* one, and the key handed upwards is the first key of the right leaf.
C23_LeafSplit ==
    [][(/\ last.op = "idle" /\ last'.op = "set"
        /\ SplitsLeaf(heap, root, last'.key)) =>
          /\ LeafSplitOf(heap, lbPositionedRef(heap, root, last'.key)[1],
                         lbPositionedRef(heap, root, last'.key)[2],
                         last'.key, last'.val, deg,
                         LeafNode_insertWithSplit(heap,
                             lbPositionedRef(heap, root, last'.key)[1],
                             lbPositionedRef(heap, root, last'.key)[2],
                             last'.key, last'.val))
          /\ SplitLeavesInstalled(heap', Chain',
                         lbPositionedRef(heap, root, last'.key)[1],
                         LeafNode_insertWithSplit(heap,
                             lbPositionedRef(heap, root, last'.key)[1],
                             lbPositionedRef(heap, root, last'.key)[2],
                             last'.key, last'.val))]_vars

\* a Set has split a leaf of a tree of odd degree below an internal root,
\* and the splits went up to the root
C23_Witness ==
    /\ last.op = "set"
    /\ deg = 3
    /\ last.ht0 >= 1 /\ height = last.ht0 + 1

\* the calls of handleInsert that split an internal node while r, what the
\* level below returned, goes up the stack st: for each the heap before it
\* and its arguments, in the order the calls are made
RECURSIVE InternalSplits(_, _, _)
InternalSplits(r, st, acc) ==
    IF r.node = NilNode \/ st = <<>> THEN acc
    ELSE InternalSplits(
             handleInsert(r.h, st[Len(st)].node, st[Len(st)].pos, r.key, r.node),
             SubSeq(st, 1, Len(st) - 1),
             IF Len(r.h[st[Len(st)].node].keys) < r.h[st[Len(st)].node].cap - 1
             THEN acc
             ELSE Append(acc, [h |-> r.h, tid |-> st[Len(st)].node,
                               pos |-> st[Len(st)].pos, key |-> r.key,
                               ptr |-> r.node]))

InternalSplitsAlong(h, lp, key, value) ==
    InternalSplits(LeafNode_setOrInsert(h, lp.leaf, key, value), lp.st, <<>>)

\* the internal splits of SetOp(key, value)
InternalSplitsOf(h, rt, key, value) ==
    InternalSplitsAlong(h, leafAndPathForKey(h, rt, key, <<>>), key, value)

\* old is the full node, combKeys and combPtrs its keys and pointers with
\* the new pair in place, L and R the two nodes after the split
InternalSplitShape(old, combKeys, combPtrs, L, R, upKey, pos, d, s) ==
    /\ Len(old.pointers) = d /\ Len(old.keys) = d - 1 /\ pos \in 0..(d - 1)
    /\ Len(combKeys) = d /\ Len(combPtrs) = d + 1
    /\ StrictlyIncreasing(combKeys)
    /\ L.keys = Slice(combKeys, 0, s - 1)
    /\ L.pointers = Slice(combPtrs, 0, s)
    /\ upKey = At(combKeys, s - 1)
    /\ R.keys = Slice(combKeys, s, d)
    /\ R.pointers = Slice(combPtrs, s, d + 1)
    /\ L.keys \o <<upKey>> \o R.keys = combKeys
    /\ L.pointers \o R.pointers = combPtrs
    /\ Len(L.pointers) >= ceilDiv(d, 2) /\ Len(R.pointers) >= ceilDiv(d, 2)

InternalSplitResult(e, r, d) ==
    InternalSplitShape(e.h[e.tid],
                       InsertAt(e.h[e.tid].keys, e.pos, e.key),
                       InsertAt(e.h[e.tid].pointers, e.pos + 1, e.ptr),
                       r.h[e.tid], r.h[r.node], r.key, e.pos, d, ceilDiv(d, 2))

\* e is one split: what InternalNode.insertWithSplit makes of it
InternalSplitOK(e, d) ==
    InternalSplitResult(e, InternalNode_insertWithSplit(e.h, e.tid, e.pos, e.key, e.ptr), d)

\* the tree h1 has internal nodes with the keys the split e left and made
InternalSplitInstalled(e, r, h1, ns) ==
    \E a \in ns, b \in ns :
        /\ a # b
        /\ h1[a].keys = r.h[e.tid].keys
        /\ h1[b].keys = r.h[r.node].keys
        /\ Len(h1[a].pointers) = Len(r.h[e.tid].pointers)
        /\ Len(h1[b].pointers) = Len(r.h[r.node].pointers)

AllInternalSplitsOK(evs, d, h1, ns) ==
    \A i \in 1..Len(evs) :
        /\ InternalSplitOK(evs[i], d)
        /\ InternalSplitInstalled(evs[i],
               InternalNode_insertWithSplit(evs[i].h, evs[i].tid, evs[i].pos,
                                            evs[i].key, evs[i].ptr), h1, ns)

\* C24: a (key, child) pair inserted at any position into a full internal
\* node (d pointers) splits it with s = ceil(d/2): the left node keeps the
\* first s-1 keys and the first s pointers of the combined ordered
\* sequences, the combined key at index s-1 goes up, the new right node
\* gets the keys and the pointers from index s on; left keys, the key that
\* went up and right keys are the sorted combined d keys, none lost and
\* none twice, and both nodes hold ceil(d/2) pointers at least.
C24_InternalSplit ==
    [][(last.op = "idle" /\ last'.op = "set") =>
          AllInternalSplitsOK(InternalSplitsOf(heap, root, last'.key, last'.val),
                              deg, heap', Internals')]_vars

\* a Set has split the internal root of a tree of the largest degree
C24_Witness ==
    /\ last.op = "set"
    /\ deg = MaxDegree
    /\ last.ht0 = 1 /\ height = 2

\* d-1 keys for a leaf, d pointers for an internal node
Capacity(n, d) == IF n.isLeaf THEN d - 1 ELSE d

\* L0 and R0 are the pair before left.rebalanceWith(right, downKey), L1 and
\* R1 after it; upKey is what it returned
RebalanceReturn(L0, R0, L1, R1, upKey, d) ==
    /\ (NodeLen(L1) = NodeLen(L0) + NodeLen(R0))
           <=> (NodeLen(L0) + NodeLen(R0) <= Capacity(L0, d))
    /\ (upKey = NilKey) <=> (NodeLen(L1) = NodeLen(L0) + NodeLen(R0))
    /\ NodeLen(L1) # NodeLen(L0) + NodeLen(R0) =>
           /\ upKey # NilKey
           /\ NodeLen(L1) + NodeLen(R1) = NodeLen(L0) + NodeLen(R0)
           /\ NodeLen(R1) >= 1

\* P0 is the parent before the rebalance of its children at dkIdx and
\* dkIdx + 1, P1 the parent after InternalNode.delete has dealt with upKey
ParentUpdate(P0, P1, right, dkIdx, upKey) ==
    /\ At(P0.pointers, dkIdx + 1) = right
    /\ upKey = NilKey =>
           /\ P1.keys = RemoveAt(P0.keys, dkIdx)
           /\ P1.pointers = RemoveAt(P0.pointers, dkIdx + 1)
           /\ right \notin SeqSet(P1.pointers)
    /\ upKey # NilKey =>
           /\ P1.pointers = P0.pointers
           /\ Len(P1.keys) = Len(P0.keys)
           /\ At(P1.keys, dkIdx) = upKey
           /\ \A i \in 0..(Len(P0.keys) - 1) :
                  i # dkIdx => At(P1.keys, i) = At(P0.keys, i)

RebalanceContract(e, sp, rb, ap, d) ==
    /\ RebalanceReturn(e.h[sp[1]], e.h[sp[2]], rb.h[sp[1]], rb.h[sp[2]], rb.upKey, d)
    /\ ParentUpdate(e.h[e.tid], ap.h[e.tid], sp[2], sp[3], rb.upKey)

RebalanceContractOf(e, sp, d) ==
    RebalanceContract(e, sp, rebalanceOf(e.h, e.tid, sp),
                      rebalancePair(e.h, e.tid, sp), d)

\* the merges among the rebalances evs
Merges(evs) ==
    {i \in 1..Len(evs) :
        rebalanceOf(evs[i].h, evs[i].tid,
                    siblingPair(evs[i].h, evs[i].tid, evs[i].ci)).upKey = NilKey}

\* gone is the number of nodes the call took from the tree, shrunk 1 when
\* the root was replaced by its child
AllRebalanceContracts(evs, d, gone, shrunk) ==
    /\ \A i \in 1..Len(evs) :
           RebalanceContractOf(evs[i], siblingPair(evs[i].h, evs[i].tid, evs[i].ci), d)
    /\ gone = Cardinality(Merges(evs)) + shrunk

\* C25: rebalanceWith(right, downKey), of leaves and of internal nodes,
\* merges if and only if self.len + right.len <= capacity (d-1 keys for
\* leaves, d pointers for internal nodes) and returns nil if and only if it
\* merged; a redistribution returns a non-nil key.  The parent removes
\* keys[separatorIdx] and the pointer to the right node exactly when nil was
\* returned, and otherwise only overwrites keys[separatorIdx] with the key
\* returned and keeps every pointer.
C25_MergeIffFits ==
    [][(last.op = "idle" /\ last'.op = "del") =>
          AllRebalanceContracts(Rebalances(heap, root, last'.key), deg,
                                Cardinality(DOMAIN heap) - Cardinality(DOMAIN heap'),
                                IF height' < height THEN 1 ELSE 0)]_vars

\* a Delete has merged two leaves and then redistributed two internal nodes
C25_Witness ==
    /\ last.op = "del" /\ last.del
    /\ \E i \in 1..Len(last.trace) : last.trace[i].leaf /\ last.trace[i].merged
    /\ \E i \in 1..Len(last.trace) : ~last.trace[i].leaf /\ ~last.trace[i].merged

\* L0 and R0 are two sibling leaves before their redistribution, L1 and R1
\* after it, lsz the number of keys the left one is to end with
LeafRedistribution(L0, R0, L1, R1, upKey, d, lsz) ==
    /\ Len(L1.keys) = lsz
    /\ Len(R1.keys) = Len(L0.keys) + Len(R0.keys) - lsz
    /\ Len(L1.keys) >= ceilDiv(d - 1, 2) /\ Len(R1.keys) >= ceilDiv(d - 1, 2)
    /\ L1.keys \o R1.keys = L0.keys \o R0.keys
    /\ L1.values \o R1.values = L0.values \o R0.values
    /\ upKey = R1.keys[1]

\* the pair sp of the rebalance e are leaves that do not fit in one
IsLeafRedistribution(e, sp, d) ==
    /\ e.h[sp[1]].isLeaf
    /\ Len(e.h[sp[1]].keys) + Len(e.h[sp[2]].keys) > d - 1

LeafRedistributionHalves(e, sp, rb, d) ==
    IsLeafRedistribution(e, sp, d) =>
        LeafRedistribution(e.h[sp[1]], e.h[sp[2]], rb.h[sp[1]], rb.h[sp[2]], rb.upKey,
                           d, ceilDiv(Len(e.h[sp[1]].keys) + Len(e.h[sp[2]].keys), 2))

LeafRedistributionMin(e, sp, rb, d) ==
    IsLeafRedistribution(e, sp, d) =>
        LeafRedistribution(e.h[sp[1]], e.h[sp[2]], rb.h[sp[1]], rb.h[sp[2]], rb.upKey,
                           d, ceilDiv(d - 1, 2))

AllLeafRedistributionHalves(evs, d) ==
    \A i \in 1..Len(evs) :
        LeafRedistributionHalves(evs[i], siblingPair(evs[i].h, evs[i].tid, evs[i].ci),
            rebalanceOf(evs[i].h, evs[i].tid,
                        siblingPair(evs[i].h, evs[i].tid, evs[i].ci)), d)

AllLeafRedistributionMin(evs, d) ==
    \A i \in 1..Len(evs) :
        LeafRedistributionMin(evs[i], siblingPair(evs[i].h, evs[i].tid, evs[i].ci),
            rebalanceOf(evs[i].h, evs[i].tid,
                        siblingPair(evs[i].h, evs[i].tid, evs[i].ci)), d)

\* the leaves that follow each other in the chain of the tree after the
\* call and hold lsz keys and an odd number of keys above d-1 together
OddPairAfter(h, ch, d, lsz) ==
    \E i \in 1..(Len(ch) - 1) :
        /\ Len(h[ch[i]].keys) = lsz
        /\ (Len(h[ch[i]].keys) + Len(h[ch[i + 1]].keys)) % 2 = 1
        /\ Len(h[ch[i]].keys) + Len(h[ch[i + 1]].keys) > d - 1

\* C26 as stated: two sibling leaves with total keys together (total > d-1)
\* are redistributed so that the left one ends with ceil(total/2) keys and
\* the right one with the other total - ceil(total/2), both ceil((d-1)/2)
\* at least; the concatenated order of keys and values is unchanged and the
\* new separator returned is the right leaf's first key.
C26_LeafRedistributionHalves ==
    [][(last.op = "idle" /\ last'.op = "del") =>
          AllLeafRedistributionHalves(Rebalances(heap, root, last'.key), deg)]_vars

\* C26 amended: two sibling leaves with total keys together (total > d-1)
\* are redistributed so that the left one ends with ceil((d-1)/2) keys, its
\* minimum, and the right one with the other total - ceil((d-1)/2), both
\* ceil((d-1)/2) at least; the concatenated order of keys and values is
\* unchanged and the new separator returned is the right leaf's first key.
C26_LeafRedistributionMin ==
    [][(last.op = "idle" /\ last'.op = "del") =>
          AllLeafRedistributionMin(Rebalances(heap, root, last'.key), deg)]_vars

\* a Delete has redistributed two leaves with an odd number of keys
C26_Witness ==
    /\ last.op = "del" /\ last.del
    /\ \E i \in 1..Len(last.trace) : last.trace[i].leaf /\ ~last.trace[i].merged
    /\ OddPairAfter(heap, Chain, deg, ceilDiv(deg - 1, 2))

\* L0 and R0 are two adjacent internal siblings before
\* L.rebalanceWith(R, downKey), L1 and R1 after it, upKey what it returned
\* and s the number of pointers the left one is to end with if it does not
\* take them all
InternalRebalance(L0, R0, L1, R1, downKey, upKey, d, s) ==
    IF Len(L0.pointers) + Len(R0.pointers) <= d
    THEN /\ L1.keys = L0.keys \o <<downKey>> \o R0.keys
         /\ L1.pointers = L0.pointers \o R0.pointers
         /\ upKey = NilKey
    ELSE /\ Len(L1.pointers) = s /\ Len(L1.keys) = s - 1
         /\ L1.pointers = Slice(L0.pointers \o R0.pointers, 0, s)
         /\ L1.keys = Slice(L0.keys \o <<downKey>> \o R0.keys, 0, s - 1)
         /\ upKey = At(L0.keys \o <<downKey>> \o R0.keys, s - 1)
         /\ R1.pointers = Slice(L0.pointers \o R0.pointers, s,
                                Len(L0.pointers) + Len(R0.pointers))
         /\ R1.keys = Slice(L0.keys \o <<downKey>> \o R0.keys, s,
                            Len(L0.keys) + 1 + Len(R0.keys))
         /\ L1.keys \o <<upKey>> \o R1.keys = L0.keys \o <<downKey>> \o R0.keys
         /\ L1.pointers \o R1.pointers = L0.pointers \o R0.pointers

InternalRebalanceOf(e, sp, rb, d) ==
    ~e.h[sp[1]].isLeaf =>
        InternalRebalance(e.h[sp[1]], e.h[sp[2]], rb.h[sp[1]], rb.h[sp[2]],
                          At(e.h[e.tid].keys, sp[3]), rb.upKey, d, ceilDiv(d, 2))

AllInternalRebalances(evs, d) ==
    \A i \in 1..Len(evs) :
        InternalRebalanceOf(evs[i], siblingPair(evs[i].h, evs[i].tid, evs[i].ci),
            rebalanceOf(evs[i].h, evs[i].tid,
                        siblingPair(evs[i].h, evs[i].tid, evs[i].ci)), d)

\* C27: for two adjacent internal siblings L and R with parent separator
\* downKey, rebalanceWith keeps the combined ordered sequences.  On a merge
\* L.keys is the old L.keys, downKey and the old R.keys, and L.pointers the
\* old L.pointers and the old R.pointers.  On a redistribution L takes the
\* first ceil(d/2) pointers and the first ceil(d/2)-1 keys, the combined key
\* at index ceil(d/2)-1 is returned as the new separator, R takes the rest,
\* and new L.keys, upKey and new R.keys are old L.keys, downKey and old
\* R.keys, the pointer sequence being as it was.
C27_InternalRebalanceKeepsOrder ==
    [][(last.op = "idle" /\ last'.op = "del") =>
          AllInternalRebalances(Rebalances(heap, root, last'.key), deg)]_vars

\* a Delete has redistributed two internal nodes of a tree of the largest
\* degree, one of which has more pointers than the other afterwards
C27_Witness ==
    /\ last.op = "del" /\ last.del
    /\ deg = MaxDegree
    /\ \E i \in 1..Len(last.trace) : ~last.trace[i].leaf /\ ~last.trace[i].merged
    /\ \E a \in Internals \ {root}, b \in Internals \ {root} :
           /\ Len(heap[a].pointers) = ceilDiv(deg, 2)
           /\ Len(heap[b].pointers) > ceilDiv(deg, 2)

\* the two assertions that close the handling of a child's delete, on the
\* pair sp after the rebalance rb
AssertionsHold(sp, rb) ==
    /\ ~needsRebalance(rb.h[sp[1]])
    /\ rb.upKey # NilKey => ~needsRebalance(rb.h[sp[2]])

AllAssertionsHold(evs) ==
    \A i \in 1..Len(evs) :
        AssertionsHold(siblingPair(evs[i].h, evs[i].tid, evs[i].ci),
                       rebalanceOf(evs[i].h, evs[i].tid,
                                   siblingPair(evs[i].h, evs[i].tid, evs[i].ci)))

\* C28: for a degree of 3 or more and any sequence of Set and Delete, the
\* two assertions at the end of the handling of a child's delete do not
\* fail: after a rebalance the left node of the pair does not need
\* rebalance, and after a redistribution the right node does not either;
\* Delete does not abort.
C28_AssertionsNeverFail ==
    [][(last.op = "idle" /\ last'.op = "del") =>
          /\ AllAssertionsHold(Rebalances(heap, root, last'.key))
          /\ ~DelOp(heap, root, height, last'.key, FALSE).panic
          /\ ~last'.panic]_vars

\* a Delete has returned after merges at two levels, the second of which
\* left the root with a single child
C28_Witness ==
    /\ last.op = "del" /\ last.del /\ ~last.panic
    /\ Len(last.trace) = 2
    /\ last.trace[1].leaf /\ last.trace[1].merged
    /\ ~last.trace[2].leaf /\ last.trace[2].merged
    /\ height < last.ht0

\* t is an internal node with n pointers, sp what siblingPair(i) returned
\* for it, lLen and rLen the len of the neighbours of a middle child
SiblingPairResult(h, t, n, i, sp) ==
    /\ n >= 2 /\ i \in 0..(n - 1)
    /\ i = 0 => sp = <<At(t.pointers, 0), At(t.pointers, 1), 0>>
    /\ i = n - 1 => sp = <<At(t.pointers, n - 2), At(t.pointers, n - 1), n - 2>>
    /\ (i # 0 /\ i # n - 1
          /\ NodeLen(h[At(t.pointers, i - 1)]) >= NodeLen(h[At(t.pointers, i + 1)])) =>
           sp = <<At(t.pointers, i - 1), At(t.pointers, i), i - 1>>
    /\ (i # 0 /\ i # n - 1
          /\ NodeLen(h[At(t.pointers, i + 1)]) > NodeLen(h[At(t.pointers, i - 1)])) =>
           sp = <<At(t.pointers, i), At(t.pointers, i + 1), i>>
    /\ sp[1] = At(t.pointers, sp[3]) /\ sp[2] = At(t.pointers, sp[3] + 1)
    /\ At(t.pointers, i) \in {sp[1], sp[2]}

AllSiblingPairs(evs) ==
    \A i \in 1..Len(evs) :
        SiblingPairResult(evs[i].h, evs[i].h[evs[i].tid], NodeLen(evs[i].h[evs[i].tid]),
                          evs[i].ci, siblingPair(evs[i].h, evs[i].tid, evs[i].ci))

\* C29: siblingPair(i) on an internal node with n >= 2 pointers returns
\* (pointers[0], pointers[1], 0) when i = 0, (pointers[n-2], pointers[n-1],
\* n-2) when i = n-1, and otherwise pairs child i with its left neighbour,
\* (pointers[i-1], pointers[i], i-1), when the left neighbour's len is
\* greater than or equal to the right neighbour's, and with its right
\* neighbour, (pointers[i], pointers[i+1], i), when the right neighbour's
\* len is strictly greater; the pair returned is adjacent and holds child i.
C29_SiblingPair ==
    [][(last.op = "idle" /\ last'.op = "del") =>
          AllSiblingPairs(Rebalances(heap, root, last'.key))]_vars

\* a Delete has rebalanced two leaves and then a middle internal node with
\* its right neighbour, which had more pointers than the left one
C29_Witness ==
    /\ last.op = "del" /\ last.del
    /\ Len(last.trace) >= 2
    /\ last.trace[1].leaf
    /\ ~last.trace[2].leaf /\ last.trace[2].pick = "right"

\* the indexes of the immediate neighbours of child i of a node with n
\* pointers
Neighbours(i, n) == {j \in {i - 1, i + 1} : 0 <= j /\ j <= n - 1}

\* child i of t and its neighbour j fit in one node
FitsWith(h, t, i, j, d) ==
    NodeLen(h[At(t.pointers, i)]) + NodeLen(h[At(t.pointers, j)])
        <= Capacity(h[At(t.pointers, i)], d)

MergeWhenOneFits(h, t, i, upKey, d) ==
    (\E j \in Neighbours(i, NodeLen(t)) : FitsWith(h, t, i, j, d)) => upKey = NilKey

MergeIffAllFit(h, t, i, upKey, d) ==
    (\A j \in Neighbours(i, NodeLen(t)) : FitsWith(h, t, i, j, d)) <=> upKey = NilKey

AllMergeWhenOneFits(evs, d) ==
    \A i \in 1..Len(evs) :
        MergeWhenOneFits(evs[i].h, evs[i].h[evs[i].tid], evs[i].ci,
            rebalanceOf(evs[i].h, evs[i].tid,
                        siblingPair(evs[i].h, evs[i].tid, evs[i].ci)).upKey, d)

AllMergeIffAllFit(evs, d) ==
    \A i \in 1..Len(evs) :
        MergeIffAllFit(evs[i].h, evs[i].h[evs[i].tid], evs[i].ci,
            rebalanceOf(evs[i].h, evs[i].tid,
                        siblingPair(evs[i].h, evs[i].tid, evs[i].ci)).upKey, d)

\* C30 as stated: a merge is preferred when feasible: whenever a child
\* underflows after a delete and one at least of its immediate neighbours
\* could be merged with it (their combined length fits in one node), the
\* rebalance made is a merge and not a redistribution.
C30_MergePreferred ==
    [][(last.op = "idle" /\ last'.op = "del") =>
          AllMergeWhenOneFits(Rebalances(heap, root, last'.key), deg)]_vars

\* C30 amended: whenever a child underflows after a delete, the rebalance
\* made is a merge if every immediate neighbour of the child could be merged
\* with it, and a redistribution if one of them could not, also when the
\* other one could: the child is paired with the neighbour of the greater
\* len.
C30_MergeWhenAllFit ==
    [][(last.op = "idle" /\ last'.op = "del") =>
          AllMergeIffAllFit(Rebalances(heap, root, last'.key), deg)]_vars

\* a Delete has redistributed a middle leaf of a tree of even degree with
\* one of its neighbours
C30_Witness ==
    /\ last.op = "del" /\ last.del
    /\ deg = 4
    /\ \E i \in 1..Len(last.trace) :
           /\ last.trace[i].leaf /\ ~last.trace[i].merged
           /\ last.trace[i].pick \in {"left", "right"}

\* the search keys: every key there is and one above them all
SearchKeys == 1..(MaxKey + 1)

\* the number of separators of t that are less than or equal to key
SeparatorsUpTo(t, key) == Cardinality({i \in 1..Len(t.keys) : t.keys[i] <= key})

RoutedBySeparators(t, key) ==
    /\ childIndexForKey(t, key) = SeparatorsUpTo(t, key)
    /\ \A i \in 0..(Len(t.keys) - 1) :
           /\ key = At(t.keys, i) => childIndexForKey(t, key) = i + 1
           /\ (key < At(t.keys, i) /\ (i = 0 \/ At(t.keys, i - 1) < key)) =>
                  childIndexForKey(t, key) = i

\* C31: for an internal node with strictly increasing separators and any
\* search key, childIndexForKey(key) is the number of separators less than
\* or equal to key: a key equal to keys[i] goes to children[i+1], a key
\* strictly between keys[i-1] and keys[i] to children[i]; so the descent for
\* a stored key ends in the leaf that stores it.
C31_ChildIndexCountsSeparators ==
    /\ \A id \in Internals :
           /\ StrictlyIncreasing(heap[id].keys)
           /\ \A key \in SearchKeys : RoutedBySeparators(heap[id], key)
    /\ \A id \in Leaves : \A i \in 1..Len(heap[id].keys) :
           leafAndPathForKey(heap, root, heap[id].keys[i], <<>>).leaf = id

\* a tree of height 2 has a separator that is a stored key and, after a
\* Delete, one that is not
C31_Witness ==
    /\ last.op = "del" /\ last.del /\ height = 2
    /\ \E id \in Internals : \E i \in 1..Len(heap[id].keys) :
           ref[heap[id].keys[i]] # NilVal
    /\ \E id \in Internals : \E i \in 1..Len(heap[id].keys) :
           ref[heap[id].keys[i]] = NilVal

\* every node of h0 but those of skip has in h1 the next it has in h0
NextKept(h0, h1, skip) ==
    \A id \in (DOMAIN h0) \ skip : h1[id].next = h0[id].next

\* the leaf split r of leaf lid of h
LeafSplitRewires(h, lid, r) ==
    /\ r.h[r.node].next = h[lid].next
    /\ r.h[lid].next = r.node
    /\ NextKept(h, r.h, {lid})

SetLeafRewires(h, lp, key, value) ==
    IF GetOp(h, lp[1], key) = NilVal /\ NodeLen(h[lp[1]]) = h[lp[1]].cap
    THEN LeafSplitRewires(h, lp[1], LeafNode_insertWithSplit(h, lp[1], lp[2], key, value))
    ELSE NextKept(h, LeafNode_setOrInsert(h, lp[1], key, value).h, {})

\* the internal split e and its outcome r
InternalSplitKeepsNext(e, r) ==
    /\ NextKept(e.h, r.h, {})
    /\ r.h[r.node].next = NilNode

AllInternalSplitsKeepNext(evs) ==
    \A i \in 1..Len(evs) :
        InternalSplitKeepsNext(evs[i],
            InternalNode_insertWithSplit(evs[i].h, evs[i].tid, evs[i].pos,
                                         evs[i].key, evs[i].ptr))

\* the rebalance rb of the pair sp in the heap h, and the parent's update ap
RebalanceRewires(h, sp, rb, ap) ==
    /\ IF h[sp[1]].isLeaf /\ rb.upKey = NilKey
       THEN /\ rb.h[sp[1]].next = h[sp[2]].next
            /\ NextKept(h, rb.h, {sp[1]})
       ELSE NextKept(h, rb.h, {})
    /\ NextKept(rb.h, ap.h, {})

AllRebalancesRewire(evs) ==
    \A i \in 1..Len(evs) :
        RebalanceRewires(evs[i].h,
            siblingPair(evs[i].h, evs[i].tid, evs[i].ci),
            rebalanceOf(evs[i].h, evs[i].tid,
                        siblingPair(evs[i].h, evs[i].tid, evs[i].ci)),
            rebalancePair(evs[i].h, evs[i].tid,
                          siblingPair(evs[i].h, evs[i].tid, evs[i].ci)))

\* C32: the leaf chain is rewired locally on every structural change: a
\* split of leaf l that makes r sets r.next to what l.next was and l.next to
\* r; a merge of leaf l with its right sibling r sets l.next to r.next; a
\* leaf redistribution and every split, merge or redistribution of internal
\* nodes leave every next as it was.
C32_ChainRewiredLocally ==
    [][/\ (last.op = "idle" /\ last'.op = "set") =>
             /\ SetLeafRewires(heap, <<leafAndPathForKey(heap, root, last'.key, <<>>).leaf,
                                       lbPositionedRef(heap, root, last'.key)[2]>>,
                               last'.key, last'.val)
             /\ AllInternalSplitsKeepNext(
                    InternalSplitsOf(heap, root, last'.key, last'.val))
       /\ (last.op = "idle" /\ last'.op = "del") =>
             AllRebalancesRewire(Rebalances(heap, root, last'.key))]_vars

\* a Delete has merged the first leaf of a parent with its right sibling,
\* which had a next leaf
C32_Witness ==
    /\ last.op = "del" /\ last.del
    /\ Len(last.trace) >= 1
    /\ last.trace[1].leaf /\ last.trace[1].merged /\ last.trace[1].pick = "first"
    /\ Len(Chain) >= 2
    /\ heap[Leftmost(root)].next # NilNode
    /\ last.key < heap[Leftmost(root)].keys[1]

\* the ancestors below the j-th node of the path st are all full
FullBelow(h, st, j) ==
    \A i \in (j + 1)..Len(st) : Len(h[st[i].node].keys) = h[st[i].node].cap - 1

\* lp is the leaf and the path of the descent in h, r0 what the leaf
\* returned, r what setOrInsert returned, evs the internal splits made
InsertUnwinds(h, lp, r0, r, evs) ==
    /\ \A id \in DOMAIN h :
           (id # lp.leaf /\ \A j \in 1..Len(lp.st) : lp.st[j].node # id) =>
               r.h[id] = h[id]
    /\ r0.node = NilNode => \A id \in DOMAIN h : ~h[id].isLeaf => r.h[id] = h[id]
    /\ \A j \in 1..Len(lp.st) :
           (r.h[lp.st[j].node] # h[lp.st[j].node])
               <=> (r0.node # NilNode /\ FullBelow(h, lp.st, j))
    /\ \A j \in 1..Len(lp.st) : \A i \in 1..Len(lp.st) :
           lp.st[i].node = lp.st[j].node => i = j
    /\ Len(evs) <= Len(lp.st)
    /\ \A i \in 1..Len(evs) :
           /\ evs[i].tid = lp.st[Len(lp.st) - i + 1].node
           /\ evs[i].pos = lp.st[Len(lp.st) - i + 1].pos
           /\ FullBelow(h, lp.st, Len(lp.st) - i)
    /\ Cardinality((DOMAIN r.h) \ (DOMAIN h))
           = (IF r0.node # NilNode THEN 1 ELSE 0) + Len(evs)
    /\ (r.node # NilNode) <=> (r0.node # NilNode /\ FullBelow(h, lp.st, 0))

InsertUnwindsAlong(h, lp, key, value, grown, more) ==
    /\ InsertUnwinds(h, lp, LeafNode_setOrInsert(h, lp.leaf, key, value),
                     setOrInsertAlong(h, lp, key, value),
                     InternalSplitsAlong(h, lp, key, value))
    /\ stackOnReturnAlong(h, lp, key, value) = <<>>
    /\ more = Cardinality((DOMAIN setOrInsertAlong(h, lp, key, value).h) \ (DOMAIN h))
                + grown

\* C33: during Set, handleInsert is applied only to internal nodes of the
\* recorded descent path, bottom-up, once per node at most, and only while
\* the level below returned a new sibling: if the leaf does not split no
\* internal node is modified; once an ancestor takes the new sibling without
\* splitting, the ancestors above it and the nodes off the path are as they
\* were; the path stack is empty when the operation returns.
C33_InsertUnwindsAlongPath ==
    [][(last.op = "idle" /\ last'.op = "set") =>
          InsertUnwindsAlong(heap, leafAndPathForKey(heap, root, last'.key, <<>>),
                             last'.key, last'.val,
                             IF height' > height THEN 1 ELSE 0,
                             Cardinality(DOMAIN heap') - Cardinality(DOMAIN heap))]_vars

\* a Set has split a leaf of a tree of height 2 and of the largest degree
\* and an ancestor took the new leaf without the height changing
C33_Witness ==
    /\ last.op = "set"
    /\ deg = MaxDegree
    /\ last.ht0 = 2 /\ height = 2
    /\ \E id \in Leaves :
           /\ last.key \in SeqSet(heap[id].keys)
           /\ Len(heap[id].keys) = ceilDiv(deg - 1, 2)

\* <<i, eq>> is the lower bound of key in arr and whether key is at it
IsLowerBound(arr, key, res) ==
    /\ res[1] \in 0..Len(arr)
    /\ \A j \in 0..(res[1] - 1) : At(arr, j) < key
    /\ res[1] < Len(arr) => At(arr, res[1]) >= key
    /\ res[2] <=> (res[1] < Len(arr) /\ At(arr, res[1]) = key)

SearchesAgree(arr) ==
    \A key \in 0..(MaxKey + 1) :
        /\ lbLinSearch(arr, key) = lbBinSearch(arr, key)
        /\ IsLowerBound(arr, key, lbLinSearch(arr, key))
        /\ lowerBoundBytesArr(arr, key) = lbLinSearch(arr, key)

\* the strictly increasing arrays of the state: the keys of each node and
\* the keys of the whole leaf chain
SortedArrays == {heap[id].keys : id \in TreeNodes} \cup {ChainKeys}

\* C34: on every strictly increasing array and for every search key the
\* linear and the binary lower-bound search return the same pair: the least
\* index whose element is not below the key, or the length if there is none,
\* and whether the element there equals the key.
C34_SearchesAgree ==
    \A arr \in SortedArrays : StrictlyIncreasing(arr) /\ SearchesAgree(arr)

\* an array of five keys or more in which the searches find one key at an
\* inner index and miss another at an inner lower bound
C34_Witness ==
    /\ Len(ChainKeys) >= 5
    /\ \E key \in Keys : \E i \in 1..(Len(ChainKeys) - 2) :
           lbBinSearch(ChainKeys, key) = <<i, TRUE>>
    /\ \E key \in Keys : \E i \in 1..(Len(ChainKeys) - 2) :
           lbBinSearch(ChainKeys, key) = <<i, FALSE>>

\* the internal nodes met going down the first pointers from rt to a leaf
RECURSIVE computeMapHeight(_, _)
computeMapHeight(h, rt) ==
    IF h[rt].isLeaf THEN 0 ELSE 1 + computeMapHeight(h, At(h[rt].pointers, 0))

\* the numbers of internal nodes above the leaves under id, d met so far
RECURSIVE LeafDepthsIn(_, _, _)
LeafDepthsIn(h, id, d) ==
    IF h[id].isLeaf THEN {d}
    ELSE UNION {LeafDepthsIn(h, At(h[id].pointers, i), d + 1) :
                    i \in 0..(Len(h[id].pointers) - 1)}

HeightIsDepth(h, rt, ht) ==
    /\ ht = computeMapHeight(h, rt)
    /\ LeafDepthsIn(h, rt, 0) = {ht}

\* s is what setOrInsert returned for the tree <<h, rt, ht>>, r what SetOp
\* made of it
RootGrowth(h, rt, ht, s, r) ==
    /\ r.height \in {ht, ht + 1}
    /\ (r.height = ht + 1) <=> (s.node # NilNode)
    /\ s.node = NilNode => r.root = rt
    /\ s.node # NilNode =>
           /\ r.root \notin DOMAIN h
           /\ s.node \notin DOMAIN h
           /\ r.root # s.node
           /\ ~r.h[r.root].isLeaf
           /\ r.h[r.root].keys = <<s.key>>
           /\ r.h[r.root].pointers = <<rt, s.node>>
           /\ \A id \in DOMAIN s.h : r.h[id] = s.h[id]

\* C35: after every Set and every Delete the height field is the number of
\* internal nodes from the root down to the leftmost leaf, and to every
\* leaf; a Set changes the height by 0 or +1, by +1 exactly when the root
\* split and a new internal root with one separator and the two children
\* old root and new sibling was installed; a Delete changes it by 0 or -1.
C35_HeightTracksDepth ==
    [][/\ (last.op = "idle" /\ last'.op \in {"set", "del"}) =>
              HeightIsDepth(heap', root', height')
       /\ (last.op = "idle" /\ last'.op = "set") =>
              /\ RootGrowth(heap, root, height,
                            setOrInsert(heap, root, last'.key, last'.val),
                            SetOp(heap, root, height, deg, last'.key, last'.val))
              /\ height' = height + 1 =>
                     Len(heap'[root'].keys) = 1 /\ Len(heap'[root'].pointers) = 2
       /\ (last.op = "idle" /\ last'.op = "del") =>
              height' \in {height - 1, height}]_vars

\* a Delete has taken a level off a tree that Sets had grown to height 2 by
\* splitting an internal root
C35_Witness ==
    last.op = "del" /\ last.del /\ last.ht0 = 2 /\ height = 1

\* the leaves under id from left to right, through child pointers
RECURSIVE LeafOrder(_)
LeafOrder(id) ==
    IF heap[id].isLeaf THEN <<id>>
    ELSE Flatten([i \in 1..Len(heap[id].pointers) |-> LeafOrder(heap[id].pointers[i])])

\* the places <<parent, index>> where id is a child
ParentsOf(id) ==
    {<<p, i>> \in TreeNodes \X (1..(MaxDegree + 2)) :
        i <= Len(heap[p].pointers) /\ heap[p].pointers[i] = id}

\* C36: after every Set and every Delete the leaves met following next from
\* the leftmost leaf are exactly the leaves under the root from left to
\* right: the chain ends, repeats no leaf, holds no leaf a merge consumed,
\* leaves out no leaf of the tree, and every node has exactly one parent.
C36_ChainIsLeafOrder ==
    /\ Chain = LeafOrder(root)
    /\ Len(Chain) <= Cardinality(DOMAIN heap)
    /\ heap[Chain[Len(Chain)]].next = NilNode
    /\ \A i, j \in 1..Len(Chain) : Chain[i] = Chain[j] => i = j
    /\ SeqSet(Chain) = Leaves
    /\ DOMAIN heap = TreeNodes
    /\ ParentsOf(root) = {}
    /\ \A id \in TreeNodes \ {root} : Cardinality(ParentsOf(id)) = 1

\* a Delete has merged two leaves of a tree that keeps three leaves or more
C36_Witness ==
    /\ last.op = "del" /\ last.del
    /\ \E i \in 1..Len(last.trace) : last.trace[i].leaf /\ last.trace[i].merged
    /\ Len(Chain) >= 3

\* C39: after any Alloc, Write and Delete every page in the storage has
\* exactly PageSize bytes: Write turns down a slice of any other length, and
\* a Write that succeeded does not make a later Write of a PageSize slice to
\* the same page fail.
C39_PagesKeepPageSize ==
    [][/\ \A id \in DOMAIN data' : data'[id].len = PageSize
       /\ (sres.op = "idle" /\ sres'.op = "write") =>
              /\ sres'.arg.len # PageSize => sres'.err /\ data' = data
              /\ (MemoryStorage_Exists(data, sres'.id) /\ sres'.arg.len = PageSize)
                     => ~sres'.err]_vars

\* floor(log base ceil(d/2) of floor(k / ceil((d-1)/2))): the bound of the
\* health tests before the allowance for the root was added to it
maxHeightNoAllowance(nKeys, degree) ==
    logBase(nKeys \div ceilDiv(degree - 1, 2), ceilDiv(degree, 2))

\* C40 as stated: a tree of degree d holding k keys has height at most
\* floor(log base ceil(d/2) of floor(k / ceil((d-1)/2))), with nothing added
\* for a root that has fewer than ceil(d/2) pointers, whatever Sets and
\* Deletes were made and whatever the degree (taken where the quotient is at
\* least 1, so that the logarithm exists).
C40_HeightBoundNoAllowance ==
    nKeysNow >= ceilDiv(deg - 1, 2) =>
        height <= maxHeightNoAllowance(nKeysNow, deg)

\* C40, amended: the height is at most that logarithm plus 1, the 1 standing
\* for a root with fewer than ceil(d/2) pointers; with nothing added the
\* bound holds for the degrees where ceil(d/2) = 2, which are 3 and 4.
C40_HeightBoundRootAllowance ==
    nKeysNow >= ceilDiv(deg - 1, 2) =>
        /\ height <= maxHeightNoAllowance(nKeysNow, deg) + 1
        /\ ceilDiv(deg, 2) = 2 => height <= maxHeightNoAllowance(nKeysNow, deg)

\* a tree of degree 5 or more whose root has two leaves and whose height is
\* one more than the logarithm
C40_Witness ==
    /\ ceilDiv(deg, 2) > 2
    /\ nKeysNow >= ceilDiv(deg - 1, 2)
    /\ height = maxHeightNoAllowance(nKeysNow, deg) + 1
    /\ last.op = "del" /\ last.del /\ Len(heap[root].pointers) = 2

\* what the pointer at index i of n leads to: the key and the value of its
\* value cell with their lengths, and the length and the head its pointer
\* cell carries
PairAt(n, i) ==
    [key |-> ValueCellIn(n, KeyPtrCellAt(n, i)).key,
     klen |-> ValueCellIn(n, KeyPtrCellAt(n, i)).klen,
     val |-> ValueCellIn(n, KeyPtrCellAt(n, i)).val,
     vlen |-> ValueCellIn(n, KeyPtrCellAt(n, i)).vlen,
     length |-> KeyPtrCellAt(n, i).length,
     head |-> KeyPtrCellAt(n, i).head]

LiveIndexes(n) ==
    {i \in 0..(n.numKeys - 1) : ~KeyPtrCell_IsDeleted(KeyPtrCellAt(n, i))}

\* the pairs of the live pointers of n from index i on, in table order
RECURSIVE LivePairsFrom(_, _)
LivePairsFrom(n, i) ==
    IF i >= n.numKeys THEN <<>>
    ELSE (IF i \in LiveIndexes(n) THEN <<PairAt(n, i)>> ELSE <<>>)
         \o LivePairsFrom(n, i + 1)

LivePairs(n) == LivePairsFrom(n, 0)

RECURSIVE SumSizes(_)
SumSizes(ps) ==
    IF ps = <<>> THEN 0
    ELSE KeyCellSize + ValueCellHead + Head(ps).klen + Head(ps).vlen + SumSizes(Tail(ps))

\* Occupied before a Compact: the live entries with their value cells and
\* the pointer cells of the deleted ones
OccupiedAsCounted(n) ==
    /\ n.occupied = SumSizes(LivePairs(n))
                      + (n.numKeys - Cardinality(LiveIndexes(n))) * KeyCellSize
    /\ Cardinality(LiveIndexes(n)) < n.numKeys => Node_Fragmentation(n) < 255
    /\ Cardinality(LiveIndexes(n)) = n.numKeys => Node_Fragmentation(n) = 255

\* n before Compact, m after it, freed what it returned
CompactKeepsLive(n, m, freed, panic) ==
    /\ ~panic
    /\ LivePairs(m) = LivePairs(n)
    /\ LiveIndexes(m) = 0..(m.numKeys - 1)
    /\ m.numKeys = Len(LivePairs(n))
    /\ \A i \in 0..(m.numKeys - 1) :
           PairAt(m, i).length = PairAt(m, i).klen /\ PairAt(m, i).head = PairAt(m, i).key
    /\ Node_FreeSpace(m) = Node_UnfragmentedFreeSpace(n)
    /\ freed = Node_FreeSpace(m) - Node_FreeSpace(n)
    /\ Node_Fragmentation(m) = 255
    /\ m.occupied = SumSizes(LivePairs(m))

\* C37: Compact of a node that InsertAt filled and DeleteAtIndex then took
\* entries from removes exactly the deleted pointer entries and keeps the
\* live pairs, their contents and their order; after it NumKeys is the
\* number of live pairs, FreeSpace is what UnfragmentedFreeSpace was before,
\* the value returned is FreeSpace after minus FreeSpace before, and
\* Fragmentation is 255; before it Occupied counts each live entry with its
\* value cell and each deleted entry with its pointer cell only, and
\* Fragmentation is below 255 once an entry is deleted.
C37_CompactKeepsLivePairs ==
    [][/\ (pres.op = "idle" /\ pres'.op = "compact") =>
              /\ OccupiedAsCounted(pnode)
              /\ CompactKeepsLive(pnode, pnode', pres'.freed, pres'.panic)
       /\ (pres.op = "idle" /\ pres'.op = "delete" /\ ~pres'.panic) =>
              OccupiedAsCounted(pnode')]_vars

\* a Compact has freed the pointer cell and the value cell of a deleted
\* entry, or more, and has left a live pair in the node
C37_Witness ==
    /\ pres.op = "compact"
    /\ pres.freed >= KeyCellSize + CalcValueCellSize(HashLen, IntLen)
    /\ pnode.numKeys >= 1
    /\ pnode.valuesOffset < HeapSize

\* n before Split, m and spl the two nodes after it, h = HalfSizeK
SplitMovesEntries(n, h, m, spl, panic) ==
    /\ ~panic
    /\ m.numKeys = h
    /\ spl.numKeys = n.numKeys - h
    /\ spl.typ = n.typ
    /\ \A i \in 0..(spl.numKeys - 1) : PairAt(spl, i) = PairAt(n, h + i)
    /\ \A i \in 0..(m.numKeys - 1) : PairAt(m, i) = PairAt(n, i)
    /\ m.occupied = SumSizes(LivePairs(m))
    /\ spl.occupied = SumSizes(LivePairs(spl))

\* C38: Split of a node with n entries, h being HalfSizeK(), moves the
\* entries h..n-1 to the start of a new node of the same type: the node is
\* left with h keys, the new node has n-h, its i-th pair is the (h+i)-th
\* pair the node had, and Occupied of each node is the space of the entries
\* it holds.
C38_SplitMovesEntries ==
    [][(pres.op = "idle" /\ pres'.op = "split" /\ pnode.numKeys >= 1) =>
          SplitMovesEntries(pnode, Node_HalfSizeK(pnode), pnode', pres'.spl,
                            pres'.panic)]_vars

====
